---- MODULE Spec2Model ----
(***************************************************************************)
(* CXL fabric simulator: the discrete-event kernel (core/engine.py), the   *)
(* switch and port queueing model (core/switch.py), the host model         *)
(* (core/host.py), the topology builders (topology/builder.py) and the     *)
(* example drivers that bind host_send / switch_transmit / device_response *)
(* (examples/simple_fabric.py, examples/multi_switch_congestion.py).       *)
(*                                                                         *)
(* Time is integer nanoseconds.  Python lists indexed from 0 are functions *)
(* over 0..n-1, except the heap array and the deques, which are sequences  *)
(* (heap position p is element p+1).  None is modelled by the value None   *)
(* for optional integers and by NoPacket for an optional packet.           *)
(***************************************************************************)
EXTENDS Integers, Sequences, FiniteSets, TLC

\* ------------------------------------------------------------------ bounds
\* Total number of requests the hosts may create in one behaviour.
MaxRequests == 4
\* Number of run() calls in one behaviour.
MaxRuns == 2

\* --------------------------------------------------------- program constants
CXL_SWITCH_LATENCY == 30
CXL_DEVICE_LATENCY == 150
DEFAULT_PACKET_SIZE == 64
DEFAULT_BANDWIDTH_GBPS == 64

None == -1

PRIORITY_MEDIUM == 1
PRIORITY_CRITICAL == 3

\* ------------------------------------------------------------------ packets
\* CXLPacket.  tx_type is "MEM_READ" or "MEM_WRITE"; route is the list of
\* switch ids appended at each egress.
CXLPacket(packet_id, tx_type, src_host, dst_device, address, priority, timestamp) ==
    [packet_id |-> packet_id, tx_type |-> tx_type, src_host |-> src_host,
     dst_device |-> dst_device, address |-> address, size |-> DEFAULT_PACKET_SIZE,
     priority |-> priority, timestamp |-> timestamp, route |-> << >>]

\* The absent packet (event.packet = None, dequeue() returning None).
NoPacket ==
    [packet_id |-> None, tx_type |-> "NONE", src_host |-> None,
     dst_device |-> None, address |-> 0, size |-> 0,
     priority |-> 0, timestamp |-> 0, route |-> << >>]

latency_at(packet, current_time) == current_time - packet.timestamp

\* SimulationEvent.  output_port and host_id are the two metadata keys the
\* drivers use.  seq is a history field (the position of the event in the
\* order of schedule_event calls); the code has no such field and no
\* operator below reads it except the properties.
SimulationEvent(timestamp, event_type, packet, switch_id, output_port, host_id) ==
    [timestamp |-> timestamp, event_type |-> event_type, packet |-> packet,
     switch_id |-> switch_id, output_port |-> output_port, host_id |-> host_id,
     seq |-> 0]

NoEvent == SimulationEvent(None, "NONE", NoPacket, None, None, None)

\* SimulationEvent.__lt__: by timestamp only.
EventLT(a, b) == a.timestamp < b.timestamp

\* -------------------------------------------------------------------- heapq
\* heapq._siftdown(heap, startpos, pos) with newitem already taken out of
\* heap[pos]: follow the path to the root, moving parents down until the
\* place where newitem fits.
RECURSIVE SiftDownLoop(_, _, _, _)
SiftDownLoop(heap, startpos, pos, newitem) ==
    IF pos > startpos
    THEN LET parentpos == (pos - 1) \div 2
             parent == heap[parentpos + 1]
         IN IF EventLT(newitem, parent)
            THEN SiftDownLoop([heap EXCEPT ![pos + 1] = parent], startpos, parentpos, newitem)
            ELSE [heap EXCEPT ![pos + 1] = newitem]
    ELSE [heap EXCEPT ![pos + 1] = newitem]

siftdown(heap, startpos, pos) == SiftDownLoop(heap, startpos, pos, heap[pos + 1])

\* heapq._siftup(heap, pos): bubble the smaller child up until a leaf is hit,
\* then sift newitem down from there.
RECURSIVE SiftUpLoop(_, _, _, _)
SiftUpLoop(heap, startpos, pos, newitem) ==
    LET endpos == Len(heap)
        childpos == 2 * pos + 1
    IN IF childpos < endpos
       THEN LET rightpos == childpos + 1
                c == IF rightpos < endpos /\ ~EventLT(heap[childpos + 1], heap[rightpos + 1])
                     THEN rightpos ELSE childpos
            IN SiftUpLoop([heap EXCEPT ![pos + 1] = heap[c + 1]], startpos, c, newitem)
       ELSE siftdown([heap EXCEPT ![pos + 1] = newitem], startpos, pos)

siftup(heap, pos) == SiftUpLoop(heap, pos, pos, heap[pos + 1])

heappush(heap, item) == siftdown(Append(heap, item), 0, Len(heap))

\* A pop that takes the last element of the array instead of the root.
heappop_last(heap) ==
    [item |-> heap[Len(heap)], heap |-> SubSeq(heap, 1, Len(heap) - 1)]

\* heapq.heappop on a non-empty heap: the item returned and the heap left.

heappop(heap) ==
    LET lastelt == heap[Len(heap)]
        rest == SubSeq(heap, 1, Len(heap) - 1)
    IN IF Len(rest) > 0
       THEN [item |-> heap[1], heap |-> siftup([rest EXCEPT ![1] = lastelt], 0)]
       ELSE [item |-> lastelt, heap |-> rest]

\* ------------------------------------------------------------------- engine
\* SimulationEngine: current_time, event_queue and event_handlers (event
\* type -> list of handler names).  next_seq numbers the schedule_event calls
\* (history); raised records that an exception left a handler or
\* schedule_event.
NewEngine ==
    [current_time |-> 0, event_queue |-> << >>, event_handlers |-> << >>,
     next_seq |-> 0, raised |-> FALSE]

\* event_handlers[event_type] of the defaultdict(list), without the insertion.
HandlersFor(eng, event_type) ==
    IF event_type \in DOMAIN eng.event_handlers
    THEN eng.event_handlers[event_type] ELSE << >>

\* The defaultdict after event_handlers[event_type] was read.
Touched(eng, event_type) ==
    IF event_type \in DOMAIN eng.event_handlers
    THEN eng
    ELSE [eng EXCEPT !.event_handlers = (event_type :> << >>) @@ eng.event_handlers]

\* register_handler that puts the new handler in front of the list.
register_handler_front(eng, event_type, handler) ==
    [eng EXCEPT !.event_handlers =
        (event_type :> (<<handler>> \o HandlersFor(eng, event_type))) @@ eng.event_handlers]

\* SimulationEngine.register_handler
register_handler(eng, event_type, handler) ==
    [eng EXCEPT !.event_handlers =
        (event_type :> Append(HandlersFor(eng, event_type), handler)) @@ eng.event_handlers]

NewStats ==
    [total_events |-> 0, final_time |-> 0, packets_sent |-> 0,
     packets_received |-> 0, total_latency |-> 0, latencies |-> << >>]

\* schedule_event without the check against current_time.
schedule_event_unchecked(eng, event) ==
    [eng EXCEPT !.event_queue = heappush(@, [event EXCEPT !.seq = eng.next_seq]),
                !.next_seq = @ + 1]

\* schedule_event refusing the current time as well.
schedule_event_strict(eng, event) ==
    IF event.timestamp <= eng.current_time
    THEN [eng EXCEPT !.raised = TRUE]
    ELSE schedule_event_unchecked(eng, event)

\* SimulationEngine.schedule_event
schedule_event(eng, event) ==
    IF event.timestamp < eng.current_time
    THEN [eng EXCEPT !.raised = TRUE]
    ELSE [eng EXCEPT !.event_queue = heappush(@, [event EXCEPT !.seq = eng.next_seq]),
                     !.next_seq = @ + 1]

\* record_packet_completion that keeps no per-packet latency.
record_packet_completion_silent(st, packet, completion_time) ==
    LET latency == latency_at(packet, completion_time)
    IN [st EXCEPT !.packets_received = @ + 1,
                  !.total_latency = @ + latency]

\* SimulationStats.record_packet_completion
record_packet_completion(st, packet, completion_time) ==
    LET latency == latency_at(packet, completion_time)
    IN [st EXCEPT !.packets_received = @ + 1,
                  !.total_latency = @ + latency,
                  !.latencies = Append(@, latency)]

\* --------------------------------------------------------------------- port
SwitchPort(port_id, max_queue_depth) ==
    [port_id |-> port_id, max_queue_depth |-> max_queue_depth,
     bandwidth_gbps |-> DEFAULT_BANDWIDTH_GBPS, queue |-> << >>,
     packets_sent |-> 0, packets_dropped |-> 0, total_queue_time |-> 0,
     is_transmitting |-> FALSE, next_available_time |-> 0]

has_packets(port) == Len(port.queue) > 0

is_full(port) == Len(port.queue) >= port.max_queue_depth

\* enqueue without the capacity check.
enqueue_unbounded(port, packet) ==
    [port |-> [port EXCEPT !.queue = Append(@, packet)], ok |-> TRUE]

\* enqueue refusing a packet without counting the drop.
enqueue_uncounted(port, packet) ==
    IF Len(port.queue) >= port.max_queue_depth
    THEN [port |-> port, ok |-> FALSE]
    ELSE [port |-> [port EXCEPT !.queue = Append(@, packet)], ok |-> TRUE]

\* SwitchPort.enqueue: the port afterwards and the value returned.
enqueue(port, packet) ==
    IF Len(port.queue) >= port.max_queue_depth
    THEN [port |-> [port EXCEPT !.packets_dropped = @ + 1], ok |-> FALSE]
    ELSE [port |-> [port EXCEPT !.queue = Append(@, packet)], ok |-> TRUE]

\* dequeue that pops the tail (deque.pop instead of popleft).
dequeue_lifo(port) ==
    IF Len(port.queue) > 0
    THEN [port |-> [port EXCEPT !.packets_sent = @ + 1,
                                !.queue = SubSeq(@, 1, Len(@) - 1)],
          packet |-> port.queue[Len(port.queue)]]
    ELSE [port |-> port, packet |-> NoPacket]

\* dequeue that returns the head and leaves it in the queue.
dequeue_peek(port) ==
    IF Len(port.queue) > 0
    THEN [port |-> [port EXCEPT !.packets_sent = @ + 1], packet |-> Head(port.queue)]
    ELSE [port |-> port, packet |-> NoPacket]

\* SwitchPort.dequeue: the port afterwards and the packet returned.
dequeue(port) ==
    IF Len(port.queue) > 0
    THEN [port |-> [port EXCEPT !.packets_sent = @ + 1, !.queue = Tail(@)],
          packet |-> Head(port.queue)]
    ELSE [port |-> port, packet |-> NoPacket]

\* ------------------------------------------------------------------- switch
CXLSwitch(switch_id, num_ports, queue_depth) ==
    [switch_id |-> switch_id, num_ports |-> num_ports,
     ports |-> [i \in 0..(num_ports - 1) |-> SwitchPort(i, queue_depth)],
     routing_table |-> << >>,
     total_packets_processed |-> 0, total_packets_dropped |-> 0]

\* CXLSwitch.set_route: the switch afterwards and whether ValueError was raised.
set_route(sw, dst_device, output_port) ==
    IF output_port >= sw.num_ports
    THEN [sw |-> sw, raised |-> TRUE]
    ELSE [sw |-> [sw EXCEPT !.routing_table =
                     (dst_device :> output_port) @@ sw.routing_table],
          raised |-> FALSE]

\* Serialization delay of a packet on a port:
\* (packet.size * 8) / (port.bandwidth_gbps * 1e9) * 1e9, in ns.
serialization_ns(packet, port) == (packet.size * 8) \div port.bandwidth_gbps

\* A scheduler that always starts the transmission at the port's
\* next_available_time.
schedule_port_transmission_stale(sw, output_port_id, eng) ==
    LET port == sw.ports[output_port_id]
    IN IF ~has_packets(port)
       THEN [sw |-> [sw EXCEPT !.ports[output_port_id].is_transmitting = FALSE],
             eng |-> eng]
       ELSE LET event == SimulationEvent(port.next_available_time, "switch_transmit",
                                         NoPacket, sw.switch_id, output_port_id, None)
            IN [sw |-> [sw EXCEPT !.ports[output_port_id].is_transmitting = TRUE],
                eng |-> schedule_event(eng, event)]

\* A scheduler that starts the next transmission at once.
schedule_port_transmission_eager(sw, output_port_id, eng) ==
    LET port == sw.ports[output_port_id]
    IN IF ~has_packets(port)
       THEN [sw |-> [sw EXCEPT !.ports[output_port_id].is_transmitting = FALSE],
             eng |-> eng]
       ELSE LET event == SimulationEvent(eng.current_time, "switch_transmit", NoPacket,
                                         sw.switch_id, output_port_id, None)
            IN [sw |-> [sw EXCEPT !.ports[output_port_id].is_transmitting = TRUE],
                eng |-> schedule_event(eng, event)]

\* CXLSwitch._schedule_port_transmission
schedule_port_transmission(sw, output_port_id, eng) ==
    LET port == sw.ports[output_port_id]
    IN IF ~has_packets(port)
       THEN [sw |-> [sw EXCEPT !.ports[output_port_id].is_transmitting = FALSE],
             eng |-> eng]
       ELSE LET tx_start == IF port.next_available_time > eng.current_time
                            THEN port.next_available_time
                            ELSE eng.current_time + CXL_SWITCH_LATENCY
                event == SimulationEvent(tx_start, "switch_transmit", NoPacket,
                                         sw.switch_id, output_port_id, None)
            IN [sw |-> [sw EXCEPT !.ports[output_port_id].is_transmitting = TRUE],
                eng |-> schedule_event(eng, event)]

\* route_packet that schedules a transmission on every accepted packet.
route_packet_legacy(sw, packet, arrival_port, eng) ==
    LET sw1 == [sw EXCEPT !.total_packets_processed = @ + 1]
    IN IF packet.dst_device \notin DOMAIN sw.routing_table
       THEN [sw |-> [sw1 EXCEPT !.total_packets_dropped = @ + 1], eng |-> eng, ok |-> FALSE]
       ELSE LET output_port_id == sw.routing_table[packet.dst_device]
                r == enqueue(sw.ports[output_port_id], packet)
                sw2 == [sw1 EXCEPT !.ports[output_port_id] = r.port]
            IN IF ~r.ok
               THEN [sw |-> [sw2 EXCEPT !.total_packets_dropped = @ + 1],
                     eng |-> eng, ok |-> FALSE]
               ELSE LET s == schedule_port_transmission(sw2, output_port_id, eng)
                    IN [sw |-> s.sw, eng |-> s.eng, ok |-> TRUE]

\* route_packet that does not count a packet refused by a full queue.
route_packet_uncounted(sw, packet, arrival_port, eng) ==
    LET sw1 == [sw EXCEPT !.total_packets_processed = @ + 1]
    IN IF packet.dst_device \notin DOMAIN sw.routing_table
       THEN [sw |-> [sw1 EXCEPT !.total_packets_dropped = @ + 1], eng |-> eng, ok |-> FALSE]
       ELSE LET output_port_id == sw.routing_table[packet.dst_device]
                port == sw.ports[output_port_id]
                was_empty == ~has_packets(port)
                r == enqueue(port, packet)
                sw2 == [sw1 EXCEPT !.ports[output_port_id] = r.port]
            IN IF ~r.ok
               THEN [sw |-> sw2, eng |-> eng, ok |-> FALSE]
               ELSE IF was_empty /\ ~port.is_transmitting
                    THEN LET s == schedule_port_transmission(sw2, output_port_id, eng)
                         IN [sw |-> s.sw, eng |-> s.eng, ok |-> TRUE]
                    ELSE [sw |-> sw2, eng |-> eng, ok |-> TRUE]

\* route_packet that leaves a packet without a route out of the processed
\* count.
route_packet_unprocessed(sw, packet, arrival_port, eng) ==
    IF packet.dst_device \notin DOMAIN sw.routing_table
    THEN [sw |-> [sw EXCEPT !.total_packets_dropped = @ + 1], eng |-> eng, ok |-> FALSE]
    ELSE LET sw1 == [sw EXCEPT !.total_packets_processed = @ + 1]
             output_port_id == sw.routing_table[packet.dst_device]
             port == sw.ports[output_port_id]
             was_empty == ~has_packets(port)
             r == enqueue(port, packet)
             sw2 == [sw1 EXCEPT !.ports[output_port_id] = r.port]
         IN IF ~r.ok
            THEN [sw |-> [sw2 EXCEPT !.total_packets_dropped = @ + 1],
                  eng |-> eng, ok |-> FALSE]
            ELSE IF was_empty /\ ~port.is_transmitting
                 THEN LET s == schedule_port_transmission(sw2, output_port_id, eng)
                      IN [sw |-> s.sw, eng |-> s.eng, ok |-> TRUE]
                 ELSE [sw |-> sw2, eng |-> eng, ok |-> TRUE]

\* route_packet that charges a packet without a route to port 0.
route_packet_charged(sw, packet, arrival_port, eng) ==
    LET sw1 == [sw EXCEPT !.total_packets_processed = @ + 1]
    IN IF packet.dst_device \notin DOMAIN sw.routing_table
       THEN [sw |-> [sw1 EXCEPT !.total_packets_dropped = @ + 1,
                                !.ports[0].packets_dropped = @ + 1],
             eng |-> eng, ok |-> FALSE]
       ELSE LET output_port_id == sw.routing_table[packet.dst_device]
                port == sw.ports[output_port_id]
                was_empty == ~has_packets(port)
                r == enqueue(port, packet)
                sw2 == [sw1 EXCEPT !.ports[output_port_id] = r.port]
            IN IF ~r.ok
               THEN [sw |-> [sw2 EXCEPT !.total_packets_dropped = @ + 1],
                     eng |-> eng, ok |-> FALSE]
               ELSE IF was_empty /\ ~port.is_transmitting
                    THEN LET s == schedule_port_transmission(sw2, output_port_id, eng)
                         IN [sw |-> s.sw, eng |-> s.eng, ok |-> TRUE]
                    ELSE [sw |-> sw2, eng |-> eng, ok |-> TRUE]

\* CXLSwitch.route_packet: switch and engine afterwards, and the value returned.
route_packet(sw, packet, arrival_port, eng) ==
    LET sw1 == [sw EXCEPT !.total_packets_processed = @ + 1]
    IN IF packet.dst_device \notin DOMAIN sw.routing_table
       THEN [sw |-> [sw1 EXCEPT !.total_packets_dropped = @ + 1], eng |-> eng, ok |-> FALSE]
       ELSE LET output_port_id == sw.routing_table[packet.dst_device]
                port == sw.ports[output_port_id]
                was_empty == ~has_packets(port)
                r == enqueue(port, packet)
                sw2 == [sw1 EXCEPT !.ports[output_port_id] = r.port]
            IN IF ~r.ok
               THEN [sw |-> [sw2 EXCEPT !.total_packets_dropped = @ + 1],
                     eng |-> eng, ok |-> FALSE]
               ELSE IF was_empty /\ ~port.is_transmitting
                    THEN LET s == schedule_port_transmission(sw2, output_port_id, eng)
                         IN [sw |-> s.sw, eng |-> s.eng, ok |-> TRUE]
                    ELSE [sw |-> sw2, eng |-> eng, ok |-> TRUE]

\* transmit_packet that always schedules a further transmission.
transmit_packet_keepalive(sw, output_port, eng) ==
    LET port == sw.ports[output_port]
        d == dequeue(port)
    IN IF d.packet # NoPacket
       THEN LET packet == [d.packet EXCEPT !.route = Append(@, sw.switch_id)]
                p1 == [d.port EXCEPT !.is_transmitting = TRUE,
                                     !.next_available_time =
                                         eng.current_time + serialization_ns(packet, port)]
                event == SimulationEvent(p1.next_available_time, "switch_transmit", NoPacket,
                                         sw.switch_id, output_port, None)
            IN [sw |-> [sw EXCEPT !.ports[output_port] = p1],
                eng |-> schedule_event(eng, event), packet |-> packet]
       ELSE [sw |-> [sw EXCEPT !.ports[output_port] =
                        [d.port EXCEPT !.is_transmitting = FALSE]],
             eng |-> eng, packet |-> NoPacket]

\* transmit_packet that starts the route of the packet afresh.
transmit_packet_rerouted(sw, output_port, eng) ==
    LET port == sw.ports[output_port]
        d == dequeue(port)
    IN IF d.packet # NoPacket
       THEN LET packet == [d.packet EXCEPT !.route = <<sw.switch_id>>]
                p1 == [d.port EXCEPT !.next_available_time =
                          eng.current_time + serialization_ns(packet, port)]
                sw1 == [sw EXCEPT !.ports[output_port] = p1]
            IN IF has_packets(p1)
               THEN LET s == schedule_port_transmission(sw1, output_port, eng)
                    IN [sw |-> s.sw, eng |-> s.eng, packet |-> packet]
               ELSE [sw |-> [sw1 EXCEPT !.ports[output_port].is_transmitting = FALSE],
                     eng |-> eng, packet |-> packet]
       ELSE [sw |-> [sw EXCEPT !.ports[output_port] =
                        [d.port EXCEPT !.is_transmitting = FALSE]],
             eng |-> eng, packet |-> NoPacket]

\* transmit_packet that leaves the route of the packet as it was.
transmit_packet_untraced(sw, output_port, eng) ==
    LET port == sw.ports[output_port]
        d == dequeue(port)
    IN IF d.packet # NoPacket
       THEN LET packet == d.packet
                p1 == [d.port EXCEPT !.next_available_time =
                          eng.current_time + serialization_ns(packet, port)]
                sw1 == [sw EXCEPT !.ports[output_port] = p1]
            IN IF has_packets(p1)
               THEN LET s == schedule_port_transmission(sw1, output_port, eng)
                    IN [sw |-> s.sw, eng |-> s.eng, packet |-> packet]
               ELSE [sw |-> [sw1 EXCEPT !.ports[output_port].is_transmitting = FALSE],
                     eng |-> eng, packet |-> packet]
       ELSE [sw |-> [sw EXCEPT !.ports[output_port] =
                        [d.port EXCEPT !.is_transmitting = FALSE]],
             eng |-> eng, packet |-> NoPacket]

\* transmit_packet that schedules no further transmission when packets
\* remain.
transmit_packet_once(sw, output_port, eng) ==
    LET port == sw.ports[output_port]
        d == dequeue(port)
    IN IF d.packet # NoPacket
       THEN LET packet == [d.packet EXCEPT !.route = Append(@, sw.switch_id)]
                p1 == [d.port EXCEPT !.next_available_time =
                          eng.current_time + serialization_ns(packet, port)]
                sw1 == [sw EXCEPT !.ports[output_port] = p1]
            IN IF has_packets(p1)
               THEN [sw |-> sw1, eng |-> eng, packet |-> packet]
               ELSE [sw |-> [sw1 EXCEPT !.ports[output_port].is_transmitting = FALSE],
                     eng |-> eng, packet |-> packet]
       ELSE [sw |-> [sw EXCEPT !.ports[output_port].is_transmitting = FALSE],
             eng |-> eng, packet |-> NoPacket]

\* CXLSwitch.transmit_packet: switch and engine afterwards, and the packet
\* returned (NoPacket for None), its route already extended.
transmit_packet(sw, output_port, eng) ==
    LET port == sw.ports[output_port]
        d == dequeue(port)
    IN IF d.packet # NoPacket
       THEN LET packet == [d.packet EXCEPT !.route = Append(@, sw.switch_id)]
                p1 == [d.port EXCEPT !.next_available_time =
                          eng.current_time + serialization_ns(packet, port)]
                sw1 == [sw EXCEPT !.ports[output_port] = p1]
            IN IF has_packets(p1)
               THEN LET s == schedule_port_transmission(sw1, output_port, eng)
                    IN [sw |-> s.sw, eng |-> s.eng, packet |-> packet]
               ELSE [sw |-> [sw1 EXCEPT !.ports[output_port].is_transmitting = FALSE],
                     eng |-> eng, packet |-> packet]
       ELSE [sw |-> [sw EXCEPT !.ports[output_port] =
                        [d.port EXCEPT !.is_transmitting = FALSE]],
             eng |-> eng, packet |-> NoPacket]

\* --------------------------------------------------------------------- host
\* outstanding_requests maps packet ids to the packet objects themselves;
\* the model keeps its key set.
Host(host_id, connected_switch) ==
    [host_id |-> host_id, connected_switch |-> connected_switch,
     next_packet_id |-> 0, packets_sent |-> 0, packets_received |-> 0,
     outstanding_requests |-> {}]

\* generate_memory_request that numbers a packet by the count of
\* outstanding requests.
generate_memory_request_recycled(host, dst_device, address, is_read, priority, timestamp) ==
    LET tx_type == IF is_read THEN "MEM_READ" ELSE "MEM_WRITE"
        packet == CXLPacket(Cardinality(host.outstanding_requests), tx_type, host.host_id,
                            dst_device, address, priority, timestamp)
    IN [host |-> [host EXCEPT !.next_packet_id = @ + 1,
                              !.packets_sent = @ + 1,
                              !.outstanding_requests = @ \cup {packet.packet_id}],
        packet |-> packet]

\* Host.generate_memory_request: the host afterwards and the packet returned.
generate_memory_request(host, dst_device, address, is_read, priority, timestamp) ==
    LET tx_type == IF is_read THEN "MEM_READ" ELSE "MEM_WRITE"
        packet == CXLPacket(host.next_packet_id, tx_type, host.host_id,
                            dst_device, address, priority, timestamp)
    IN [host |-> [host EXCEPT !.next_packet_id = @ + 1,
                              !.packets_sent = @ + 1,
                              !.outstanding_requests = @ \cup {packet.packet_id}],
        packet |-> packet]

\* receive_response that counts a response only if it was awaited.
receive_response_awaited(host, packet) ==
    IF packet.packet_id \in host.outstanding_requests
    THEN [host EXCEPT !.packets_received = @ + 1,
                      !.outstanding_requests = @ \ {packet.packet_id}]
    ELSE host

\* Host.receive_response
receive_response(host, packet) ==
    [host EXCEPT !.packets_received = @ + 1,
                 !.outstanding_requests = @ \ {packet.packet_id}]

\* ----------------------------------------------------------------- topology
\* Apply set_route to a list of <<switch_id, dst_device, output_port>> in
\* order; a ValueError stops the configuration.
RECURSIVE ApplyRoutes(_, _)
ApplyRoutes(sws, triples) ==
    IF triples = << >>
    THEN [switches |-> sws, raised |-> FALSE]
    ELSE LET t == Head(triples)
             r == set_route(sws[t[1]], t[2], t[3])
         IN IF r.raised
            THEN [switches |-> sws, raised |-> TRUE]
            ELSE ApplyRoutes([sws EXCEPT ![t[1]] = r.sw], Tail(triples))

RECURSIVE Flatten(_)
Flatten(seqs) == IF seqs = << >> THEN << >> ELSE Head(seqs) \o Flatten(Tail(seqs))

\* SingleTierTopology.__init__ + build + configure_routing.
SingleTierTopology(num_hosts, num_devices, queue_depth) ==
    LET num_ports == num_hosts + num_devices
        sws == [i \in {0} |-> CXLSwitch(0, num_ports, queue_depth)]
        cxl_devices == [i \in 1..num_devices |-> i - 1]
        routes == [i \in 1..num_devices |-> <<0, cxl_devices[i], num_hosts + (i - 1)>>]
        routed == ApplyRoutes(sws, routes)
    IN [kind |-> "single",
        num_hosts |-> num_hosts, num_devices |-> num_devices,
        num_spines |-> 0, num_leaves |-> 0, hosts_per_leaf |-> 0, devices_per_leaf |-> 0,
        queue_depth |-> queue_depth,
        host_leaves |-> << >>, device_leaves |-> << >>,
        cxl_devices |-> cxl_devices,
        host_to_switch |-> [h \in 0..(num_hosts - 1) |-> 0],
        device_to_switch |-> [d \in 0..(num_devices - 1) |-> 0],
        switch_links |-> << >>,
        switches |-> routed.switches,
        hosts |-> [h \in 0..(num_hosts - 1) |-> Host(h, 0)],
        raised |-> routed.raised]

\* The leaf ids i (in creation order) that satisfy / do not satisfy
\* i < num_leaves // 2 + 1.
RECURSIVE LeavesFrom(_, _, _, _)
LeavesFrom(i, num_spines, num_leaves, wantHost) ==
    IF i >= num_leaves THEN << >>
    ELSE LET isHost == i < (num_leaves \div 2) + 1
             rest == LeavesFrom(i + 1, num_spines, num_leaves, wantHost)
         IN IF isHost = wantHost THEN <<num_spines + i>> \o rest ELSE rest

\* The first link of the spine, whatever leaf it leads to.
FirstLinkIndex_any(switch_links, spine_idx, device_leaf) ==
    LET hits == {k \in 1..Len(switch_links) : switch_links[k][1] = spine_idx}
    IN IF hits = {} THEN 0 ELSE CHOOSE k \in hits : \A j \in hits : k <= j

\* First link of switch_links from spine_idx to device_leaf (the loop with
\* break in configure_routing); 0 when there is none.
FirstLinkIndex(switch_links, spine_idx, device_leaf) ==
    LET hits == {k \in 1..Len(switch_links) :
                    switch_links[k][1] = spine_idx /\ switch_links[k][3] = device_leaf}
    IN IF hits = {} THEN 0 ELSE CHOOSE k \in hits : \A j \in hits : k <= j

\* An uplink policy that spreads the host leaves over the spines.
UplinkPort_spread(leaf_id, num_spines) == leaf_id % num_spines

\* The port a host leaf sends all traffic to: its link to spine 0.
UplinkPort(leaf_id, num_spines) == 0

\* TwoTierTopology.__init__ + build + configure_routing.
TwoTierTopology(num_spines, num_leaves, hosts_per_leaf, devices_per_leaf, queue_depth) ==
    LET spine_ports == num_leaves
        leaf_ports == num_spines + (IF hosts_per_leaf >= devices_per_leaf
                                    THEN hosts_per_leaf ELSE devices_per_leaf)
        sws == [i \in 0..(num_spines + num_leaves - 1) |->
                   IF i < num_spines
                   THEN CXLSwitch(i, spine_ports, queue_depth)
                   ELSE CXLSwitch(i, leaf_ports, queue_depth)]
        host_leaves == LeavesFrom(0, num_spines, num_leaves, TRUE)
        device_leaves == LeavesFrom(0, num_spines, num_leaves, FALSE)
        switch_links == [k \in 1..(num_spines * num_leaves) |->
                            LET spine_idx == (k - 1) \div num_leaves
                                leaf_idx == (k - 1) % num_leaves
                            IN <<spine_idx, leaf_idx, num_spines + leaf_idx, spine_idx>>]
        num_hosts == Len(host_leaves) * hosts_per_leaf
        num_devices == Len(device_leaves) * devices_per_leaf
        host_to_switch == [h \in 0..(num_hosts - 1) |->
                              host_leaves[(h \div hosts_per_leaf) + 1]]
        device_to_switch == [d \in 0..(num_devices - 1) |->
                                device_leaves[(d \div devices_per_leaf) + 1]]
        cxl_devices == [i \in 1..num_devices |-> i - 1]
        RoutesFor(dev_id) ==
            LET device_leaf == device_to_switch[dev_id]
                devices_on_leaf == {d \in 0..(num_devices - 1) : device_to_switch[d] = device_leaf}
                device_index == Cardinality({d \in devices_on_leaf : d < dev_id})
                device_port == num_spines + device_index
                spineRoutes == [s \in 1..num_spines |->
                    LET k == FirstLinkIndex(switch_links, s - 1, device_leaf)
                    IN IF k = 0 THEN << >> ELSE << <<s - 1, dev_id, switch_links[k][2]>> >>]
                leafRoutes == [j \in 1..Len(host_leaves) |->
                    <<host_leaves[j], dev_id, UplinkPort(host_leaves[j], num_spines)>>]
            IN << <<device_leaf, dev_id, device_port>> >> \o Flatten(spineRoutes) \o leafRoutes
        routed == ApplyRoutes(sws, Flatten([i \in 1..num_devices |-> RoutesFor(cxl_devices[i])]))
    IN [kind |-> "two_tier",
        num_hosts |-> num_hosts, num_devices |-> num_devices,
        num_spines |-> num_spines, num_leaves |-> num_leaves,
        hosts_per_leaf |-> hosts_per_leaf, devices_per_leaf |-> devices_per_leaf,
        queue_depth |-> queue_depth,
        host_leaves |-> host_leaves, device_leaves |-> device_leaves,
        cxl_devices |-> cxl_devices,
        host_to_switch |-> host_to_switch,
        device_to_switch |-> device_to_switch,
        switch_links |-> switch_links,
        switches |-> routed.switches,
        hosts |-> [h \in 0..(num_hosts - 1) |-> Host(h, host_to_switch[h])],
        raised |-> routed.raised]

\* The program before create_topology has returned: no FabricTopology, no
\* switch, no host.
Unbuilt ==
    [kind |-> "none", num_hosts |-> 0, num_devices |-> 0,
     num_spines |-> 0, num_leaves |-> 0, hosts_per_leaf |-> 0, devices_per_leaf |-> 0,
     queue_depth |-> 0,
     host_leaves |-> << >>, device_leaves |-> << >>,
     cxl_devices |-> << >>, host_to_switch |-> << >>, device_to_switch |-> << >>,
     switch_links |-> << >>,
     switches |-> << >>, hosts |-> << >>, raised |-> FALSE]

\* A factory that builds a two-tier fabric for every kind but "single".
create_topology_lenient(cfg) ==
    IF cfg.kind = "single"
    THEN SingleTierTopology(cfg.num_hosts, cfg.num_devices, cfg.queue_depth)
    ELSE TwoTierTopology(cfg.num_spines, cfg.num_leaves, cfg.hosts_per_leaf,
                         cfg.devices_per_leaf, cfg.queue_depth)

\* create_topology(topology_type, **kwargs); raised is the ValueError of an
\* unknown type (or an error of build / configure_routing).
create_topology(cfg) ==
    IF cfg.kind = "single"
    THEN SingleTierTopology(cfg.num_hosts, cfg.num_devices, cfg.queue_depth)
    ELSE IF cfg.kind = "two_tier"
    THEN TwoTierTopology(cfg.num_spines, cfg.num_leaves, cfg.hosts_per_leaf,
                         cfg.devices_per_leaf, cfg.queue_depth)
    ELSE [Unbuilt EXCEPT !.raised = TRUE]

\* get_next_hop that reads the links in the forward direction only.
get_next_hop_forward(topo, switch_id, output_port, dst_device) ==
    IF switch_id = topo.device_to_switch[dst_device]
    THEN <<"DEVICE", None, None>>
    ELSE LET links == topo.switch_links
             hits == {k \in 1..Len(links) :
                         links[k][1] = switch_id /\ links[k][2] = output_port}
         IN IF hits = {}
            THEN <<"ERROR", None, None>>
            ELSE LET k == CHOOSE k \in hits : \A j \in hits : k <= j
                 IN <<"SWITCH", links[k][3], links[k][4]>>

\* get_next_hop of the multi-switch driver: <<"DEVICE">>, <<"SWITCH", next
\* switch, arrival port>>, or <<"ERROR">> for the ValueError.
get_next_hop(topo, switch_id, output_port, dst_device) ==
    IF switch_id = topo.device_to_switch[dst_device]
    THEN <<"DEVICE", None, None>>
    ELSE LET links == topo.switch_links
             hits == {k \in 1..Len(links) :
                         \/ (links[k][1] = switch_id /\ links[k][2] = output_port)
                         \/ (links[k][3] = switch_id /\ links[k][4] = output_port)}
         IN IF hits = {}
            THEN <<"ERROR", None, None>>
            ELSE LET k == CHOOSE k \in hits : \A j \in hits : k <= j
                 IN IF links[k][1] = switch_id /\ links[k][2] = output_port
                    THEN <<"SWITCH", links[k][3], links[k][4]>>
                    ELSE <<"SWITCH", links[k][1], links[k][2]>>

\* ------------------------------------------------------------ configuration
\* Topologies the behaviours start from (arguments of create_topology).
SingleCfg(num_hosts, num_devices, queue_depth) ==
    [kind |-> "single", num_hosts |-> num_hosts, num_devices |-> num_devices,
     num_spines |-> 0, num_leaves |-> 0, hosts_per_leaf |-> 0, devices_per_leaf |-> 0,
     queue_depth |-> queue_depth]

TwoTierCfg(num_spines, num_leaves, hosts_per_leaf, devices_per_leaf, queue_depth) ==
    [kind |-> "two_tier", num_hosts |-> 0, num_devices |-> 0,
     num_spines |-> num_spines, num_leaves |-> num_leaves,
     hosts_per_leaf |-> hosts_per_leaf, devices_per_leaf |-> devices_per_leaf,
     queue_depth |-> queue_depth]

\* Scenario S2: single tier, 1 host, 1 device, capacity 16.
CfgS2 == SingleCfg(1, 1, 16)
\* Scenario S3: single tier, 1 host, 1 device, capacity 2.
CfgS3 == SingleCfg(1, 1, 2)
\* Two spines, three leaves (two host leaves, one device leaf), capacity 2.
CfgTwoTier == TwoTierCfg(2, 3, 1, 1, 2)

Configs == {CfgS2, CfgS3, CfgTwoTier}

\* Arguments of generate_memory_request the workload draws from:
\* a read and a critical write to device 0 at t=0, a later read, and a read
\* to a device no switch has a route for.
RequestInputs ==
    { [dst_device |-> 0, address |-> 0,    is_read |-> TRUE,  priority |-> PRIORITY_MEDIUM,   timestamp |-> 0],
      [dst_device |-> 0, address |-> 4096, is_read |-> FALSE, priority |-> PRIORITY_CRITICAL, timestamp |-> 0],
      [dst_device |-> 0, address |-> 8192, is_read |-> TRUE,  priority |-> PRIORITY_MEDIUM,   timestamp |-> 35],
      [dst_device |-> 7, address |-> 0,    is_read |-> TRUE,  priority |-> PRIORITY_MEDIUM,   timestamp |-> 0] }

\* Arguments of run(until, max_events) the behaviours draw from.
RunArgs ==
    { [until |-> None, max_events |-> None],
      [until |-> 200,  max_events |-> 3] }

\* -------------------------------------------------------------------- state
VARIABLES
    topology,          \* the FabricTopology built by create_topology (fixed after Init)
    switches,          \* topology.switches: switch id -> CXLSwitch
    hosts,             \* topology.hosts: host id -> Host
    engine,            \* SimulationEngine: current_time, event_queue, event_handlers
    stats,             \* engine.stats
    dropped_packets,   \* the driver's list of packets refused at ingress
    pc,                \* "idle", "running" (inside run), "halted" (run returned), "aborted"
    until,             \* arguments and local of the run call in progress
    max_events,
    events_processed,
    runs,              \* number of run calls made
    lastFired,         \* history: the event dispatched last (NoEvent before the first)
    prev_time,         \* history: current_time just before the last dispatch
    port_log,          \* history: per (switch, port), packets accepted and egressed, in order
    created,           \* history: the packets as generate_memory_request returned them
    calls              \* history: the calls made to recording handlers and by unit drivers

vars == <<topology, switches, hosts, engine, stats, dropped_packets, pc, until,
          max_events, events_processed, runs, lastFired, prev_time, port_log, created,
          calls>>

\* The connectivity maps and parameters of a built topology (everything but
\* the switch and host objects, which are the variables switches and hosts).
TopologyMaps(t) ==
    [kind |-> t.kind, num_hosts |-> t.num_hosts, num_devices |-> t.num_devices,
     num_spines |-> t.num_spines, num_leaves |-> t.num_leaves,
     hosts_per_leaf |-> t.hosts_per_leaf, devices_per_leaf |-> t.devices_per_leaf,
     queue_depth |-> t.queue_depth,
     host_leaves |-> t.host_leaves, device_leaves |-> t.device_leaves,
     cxl_devices |-> t.cxl_devices, host_to_switch |-> t.host_to_switch,
     device_to_switch |-> t.device_to_switch, switch_links |-> t.switch_links]

PacketKey(packet) == <<packet.src_host, packet.packet_id>>

\* The engine of the drivers' __main__: one handler registered per kind.
DriverEngine ==
    register_handler(
        register_handler(
            register_handler(NewEngine, "host_send", "handle_host_send"),
            "switch_transmit", "handle_switch_transmit"),
        "device_response", "handle_device_response")

\* The empty history of the ports of a set of switches.
NewPortLog(sws) ==
    [s \in DOMAIN sws |->
        [p \in DOMAIN sws[s].ports |-> [accepted |-> << >>, egressed |-> << >>]]]

Init ==
    \E cfg \in Configs :
        LET t == create_topology(cfg)
        IN /\ ~t.raised
           /\ topology = TopologyMaps(t)
           /\ switches = t.switches
           /\ hosts = t.hosts
           /\ engine = DriverEngine
           /\ stats = NewStats
           /\ dropped_packets = << >>
           /\ pc = "idle"
           /\ until = None
           /\ max_events = None
           /\ events_processed = 0
           /\ runs = 0
           /\ lastFired = NoEvent
           /\ prev_time = 0
           /\ port_log = NewPortLog(t.switches)
           /\ created = << >>
           /\ calls = << >>

TotalCreated == LET RECURSIVE Sum(_)
                    Sum(S) == IF S = {} THEN 0
                              ELSE LET h == CHOOSE h \in S : TRUE
                                   IN hosts[h].packets_sent + Sum(S \ {h})
                IN Sum(DOMAIN hosts)

\* ------------------------------------------------------------- the handlers
\* The objects a handler can reach, as one record.
World ==
    [switches |-> switches, hosts |-> hosts, engine |-> engine, stats |-> stats,
     dropped_packets |-> dropped_packets, port_log |-> port_log, calls |-> calls]

LogAccepted(log, s, p, packet) ==
    [log EXCEPT ![s][p].accepted = Append(@, PacketKey(packet))]

LogEgressed(log, s, p, packet) ==
    [log EXCEPT ![s][p].egressed = Append(@, PacketKey(packet))]

\* handle_host_send of both drivers: ingress at the host's switch.
HandleHostSend(topo, w, event) ==
    LET packet == event.packet
        host_id == event.host_id
        sid == IF topo.kind = "single" THEN 0 ELSE topo.host_to_switch[host_id]
        arrival_port == IF topo.kind = "single" THEN host_id
                        ELSE topo.num_spines + (host_id % topo.hosts_per_leaf)
        r == route_packet(w.switches[sid], packet, arrival_port, w.engine)
    IN [w EXCEPT !.switches[sid] = r.sw,
                 !.engine = r.eng,
                 !.dropped_packets = IF ~r.ok /\ topo.kind # "single"
                                     THEN Append(@, PacketKey(packet)) ELSE @,
                 !.port_log = IF r.ok
                              THEN LogAccepted(@, sid,
                                       w.switches[sid].routing_table[packet.dst_device], packet)
                              ELSE @]

\* The device_response event both drivers schedule on delivery.
DeviceResponse(eng, packet) ==
    SimulationEvent(eng.current_time + CXL_DEVICE_LATENCY, "device_response",
                    packet, None, None, None)

\* handle_switch_transmit of both drivers: egress, then delivery to the
\* device or ingress at the next switch.
HandleSwitchTransmit(topo, w, event) ==
    LET sid == IF topo.kind = "single" THEN 0 ELSE event.switch_id
        output_port == event.output_port
        t == transmit_packet(w.switches[sid], output_port, w.engine)
        sws1 == [w.switches EXCEPT ![sid] = t.sw]
        packet == t.packet
        log1 == LogEgressed(w.port_log, sid, output_port, packet)
        hop == IF topo.kind = "single" THEN <<"DEVICE", None, None>>
               ELSE get_next_hop(topo, sid, output_port, packet.dst_device)
    IN IF packet = NoPacket
       THEN [w EXCEPT !.switches = sws1, !.engine = t.eng]
       ELSE IF t.eng.raised
       THEN [w EXCEPT !.switches = sws1, !.engine = t.eng, !.port_log = log1]
       ELSE IF hop[1] = "DEVICE"
       THEN [w EXCEPT !.switches = sws1,
                      !.engine = schedule_event(t.eng, DeviceResponse(t.eng, packet)),
                      !.port_log = log1]
       ELSE IF hop[1] = "SWITCH"
       THEN LET next_switch_id == hop[2]
                arrival_port == hop[3]
                r == route_packet(sws1[next_switch_id], packet, arrival_port, t.eng)
            IN [w EXCEPT !.switches = [sws1 EXCEPT ![next_switch_id] = r.sw],
                         !.engine = r.eng,
                         !.dropped_packets = IF r.ok THEN @
                                             ELSE Append(@, PacketKey(packet)),
                         !.port_log = IF r.ok
                                      THEN LogAccepted(log1, next_switch_id,
                                               sws1[next_switch_id].routing_table[packet.dst_device],
                                               packet)
                                      ELSE log1]
       ELSE [w EXCEPT !.switches = sws1, !.engine = [t.eng EXCEPT !.raised = TRUE],
                      !.port_log = log1]

\* handle_device_response of both drivers: the host receives the response
\* and the completion is recorded.
HandleDeviceResponse(topo, w, event) ==
    LET packet == event.packet
    IN [w EXCEPT !.hosts[packet.src_host] = receive_response(@, packet),
                 !.stats = record_packet_completion(@, packet, w.engine.current_time)]

\* A handler that only records that it was called (events_fired.append in
\* the tests).
RecordingHandler(handler, w, event) ==
    [w EXCEPT !.calls = Append(@, [op |-> "handler", handler |-> handler,
                                   event_type |-> event.event_type, seq |-> event.seq])]

InvokeHandler(topo, w, event, handler) ==
    CASE handler = "handle_host_send" -> HandleHostSend(topo, w, event)
      [] handler = "handle_switch_transmit" -> HandleSwitchTransmit(topo, w, event)
      [] handler = "handle_device_response" -> HandleDeviceResponse(topo, w, event)
      [] OTHER -> RecordingHandler(handler, w, event)

\* for handler in self.event_handlers[event.event_type]: handler(event)
RECURSIVE InvokeHandlers(_, _, _, _)
InvokeHandlers(topo, w, event, handlers) ==
    IF handlers = << >> THEN w
    ELSE LET w1 == InvokeHandler(topo, w, event, Head(handlers))
         IN IF w1.engine.raised THEN w1
            ELSE InvokeHandlers(topo, w1, event, Tail(handlers))

\* The dispatch of an event in a world whose engine has popped it and
\* advanced the time.
DispatchEvent(topo, w, event) ==
    InvokeHandlers(topo, [w EXCEPT !.engine = Touched(@, event.event_type)], event,
                   HandlersFor(w.engine, event.event_type))

\* ------------------------------------------------------------ the workload
\* One iteration of the traffic generation loop: the host creates a request
\* and a host_send event carrying it is scheduled at the request's time.
\* schedule_event raising ValueError ends the program.
GenerateRequest(h, req) ==
    /\ pc \in {"idle", "halted"}
    /\ TotalCreated < MaxRequests
    /\ runs < MaxRuns
    /\ LET g == generate_memory_request(hosts[h], req.dst_device, req.address,
                                        req.is_read, req.priority, req.timestamp)
           event == SimulationEvent(req.timestamp, "host_send", g.packet, None, None, h)
           eng == schedule_event(engine, event)
       IN /\ hosts' = [hosts EXCEPT ![h] = g.host]
          /\ engine' = eng
          /\ pc' = IF eng.raised THEN "aborted" ELSE "idle"
          /\ created' = Append(created, g.packet)
    /\ UNCHANGED <<topology, switches, stats, dropped_packets, until, max_events,
                   events_processed, runs, lastFired, prev_time, port_log, calls>>

\* ---------------------------------------------------------------- run(...)
\* Entry of SimulationEngine.run: events_processed = 0.
RunBegin(args) ==
    /\ pc \in {"idle", "halted"}
    /\ runs < MaxRuns
    /\ pc' = "running"
    /\ until' = args.until
    /\ max_events' = args.max_events
    /\ events_processed' = 0
    /\ runs' = runs + 1
    /\ UNCHANGED <<topology, switches, hosts, engine, stats, dropped_packets,
                   lastFired, prev_time, port_log, created, calls>>

\* The statements after the loop: the statistics of the call.
Finished(st, eng, n) == [st EXCEPT !.total_events = n, !.final_time = eng.current_time]

FinishedStats == Finished(stats, engine, events_processed)

\* The loop condition fails: the queue is empty and run returns.
RunReturn ==
    /\ pc = "running"
    /\ engine.event_queue = << >>
    /\ stats' = FinishedStats
    /\ pc' = "halted"
    /\ UNCHANGED <<topology, switches, hosts, engine, dropped_packets, until, max_events,
                   events_processed, runs, lastFired, prev_time, port_log, created, calls>>

\* The event the next iteration pops, and the heap it leaves.
Popped == heappop(engine.event_queue)

\* A stopping condition that ignores until.
PastUntil_ignored(event, u) == FALSE

\* if until is not None and event.timestamp > until
PastUntil(event, u) == u # None /\ event.timestamp > u

\* max_events reached, with > in place of >=.
ReachedMax_after(n, m) == m # None /\ n > m

\* if max_events is not None and events_processed >= max_events
ReachedMax(n, m) == m # None /\ n >= m

HaltsOnUntil == PastUntil(Popped.item, until)
HaltsOnMax == ReachedMax(events_processed, max_events)

\* An iteration that pops an event later than until: the event is pushed
\* back and run returns.
RunHaltUntil ==
    /\ pc = "running"
    /\ engine.event_queue # << >>
    /\ HaltsOnUntil
    /\ engine' = [engine EXCEPT !.event_queue = heappush(Popped.heap, Popped.item)]
    /\ stats' = FinishedStats
    /\ pc' = "halted"
    /\ UNCHANGED <<topology, switches, hosts, dropped_packets, until, max_events,
                   events_processed, runs, lastFired, prev_time, port_log, created, calls>>

\* An iteration that finds max_events events already processed.
RunHaltMax ==
    /\ pc = "running"
    /\ engine.event_queue # << >>
    /\ ~HaltsOnUntil
    /\ HaltsOnMax
    /\ engine' = [engine EXCEPT !.event_queue = heappush(Popped.heap, Popped.item)]
    /\ stats' = FinishedStats
    /\ pc' = "halted"
    /\ UNCHANGED <<topology, switches, hosts, dropped_packets, until, max_events,
                   events_processed, runs, lastFired, prev_time, port_log, created, calls>>

\* The guard of an iteration that dispatches an event of the given type.
Dispatches(event_type) ==
    /\ pc = "running"
    /\ engine.event_queue # << >>
    /\ ~HaltsOnUntil
    /\ ~HaltsOnMax
    /\ Popped.item.event_type = event_type

\* The engine once the event is popped and time advanced.
Advanced == [engine EXCEPT !.event_queue = Popped.heap,
                           !.current_time = Popped.item.timestamp]

\* What every dispatching iteration does besides calling the handlers.
DispatchCommon(eng) ==
    /\ events_processed' = events_processed + 1
    /\ lastFired' = Popped.item
    /\ prev_time' = engine.current_time
    /\ pc' = IF eng.raised THEN "aborted" ELSE "running"
    /\ UNCHANGED <<topology, until, max_events, runs, created>>

\* A dispatching iteration: pop, advance the time, call the handlers.
Dispatch ==
    \E w \in {DispatchEvent(topology, [World EXCEPT !.engine = Advanced], Popped.item)} :
       /\ switches' = w.switches
       /\ hosts' = w.hosts
       /\ engine' = w.engine
       /\ stats' = w.stats
       /\ dropped_packets' = w.dropped_packets
       /\ port_log' = w.port_log
       /\ calls' = w.calls
       /\ DispatchCommon(w.engine)

DispatchHostSend == Dispatches("host_send") /\ Dispatch

DispatchSwitchTransmit == Dispatches("switch_transmit") /\ Dispatch

DispatchDeviceResponse == Dispatches("device_response") /\ Dispatch

Next ==
    \/ \E h \in DOMAIN hosts : \E req \in RequestInputs : GenerateRequest(h, req)
    \/ \E args \in RunArgs : RunBegin(args)
    \/ RunReturn
    \/ RunHaltUntil
    \/ RunHaltMax
    \/ DispatchHostSend
    \/ DispatchSwitchTransmit
    \/ DispatchDeviceResponse

Spec == Init /\ [][Next]_vars

\* SimulationEngine.run as one call: the loop from a world to the world at
\* return (or at the exception).
RECURSIVE RunLoop(_, _, _, _, _)
RunLoop(topo, w, u, m, n) ==
    IF w.engine.event_queue = << >>
    THEN [w EXCEPT !.stats = Finished(w.stats, w.engine, n)]
    ELSE LET p == heappop(w.engine.event_queue)
             event == p.item
         IN IF PastUntil(event, u) \/ ReachedMax(n, m)
            THEN [w EXCEPT !.engine.event_queue = heappush(p.heap, event),
                           !.stats = Finished(w.stats, w.engine, n)]
            ELSE LET w1 == DispatchEvent(topo,
                               [w EXCEPT !.engine.event_queue = p.heap,
                                         !.engine.current_time = event.timestamp],
                               event)
                 IN IF w1.engine.raised THEN w1
                    ELSE RunLoop(topo, w1, u, m, n + 1)

run(topo, w, u, m) == RunLoop(topo, w, u, m, 0)

\* ------------------------------------------------------------- derived sets
PendingEvents == {engine.event_queue[i] : i \in DOMAIN engine.event_queue}

PortsOf(s) == DOMAIN switches[s].ports

RECURSIVE SumOver(_, _)
SumOver(f, S) == IF S = {} THEN 0
                 ELSE LET x == CHOOSE x \in S : TRUE IN f[x] + SumOver(f, S \ {x})

\* Packets dropped by switches.
TotalDropped ==
    SumOver([s \in DOMAIN switches |-> switches[s].total_packets_dropped], DOMAIN switches)

\* Packets sitting in port queues.
TotalQueued ==
    SumOver([s \in DOMAIN switches |->
                SumOver([p \in PortsOf(s) |-> Len(switches[s].ports[p].queue)], PortsOf(s))],
            DOMAIN switches)

\* Packets carried by a pending host_send or device_response event.
TotalCarried ==
    Cardinality({i \in DOMAIN engine.event_queue :
                    engine.event_queue[i].event_type \in {"host_send", "device_response"}})

\* Pending switch_transmit events that target port p of switch s.
PendingTransmits(s, p) ==
    {i \in DOMAIN engine.event_queue :
        /\ engine.event_queue[i].event_type = "switch_transmit"
        /\ engine.event_queue[i].switch_id = s
        /\ engine.event_queue[i].output_port = p}

\* The step is a dispatch: the history of the last dispatched event changes
\* (every scheduled event has its own seq).
IsDispatch == lastFired' # lastFired

MinPendingTimestamp ==
    CHOOSE t \in {e.timestamp : e \in PendingEvents} :
        \A e \in PendingEvents : t <= e.timestamp

\* ================================================================== claims

\* C1: events scheduled with the same timestamp are dispatched in the order
\* of their schedule_event calls: when an event fires, no event with the same
\* timestamp that was scheduled before it is still pending.
C1_TiedEventsFireInScheduleOrder ==
    lastFired # NoEvent =>
        \A e \in PendingEvents :
            e.timestamp = lastFired.timestamp => e.seq > lastFired.seq

\* C2: every dispatch takes a pending event whose timestamp is the minimum
\* over all events pending at that moment.
C2_DispatchTakesMinimum ==
    [][IsDispatch =>
          /\ \E e \in PendingEvents : e = lastFired'
          /\ lastFired'.timestamp = MinPendingTimestamp]_vars

\* C2 witness: an event fired while an event scheduled before it, with a
\* later timestamp, stays pending.
C2_Witness ==
    /\ lastFired # NoEvent
    /\ \E e \in PendingEvents :
          e.seq < lastFired.seq /\ e.timestamp > lastFired.timestamp

\* C3: a dispatch sets current_time to the timestamp of the dispatched event,
\* and current_time never decreases, whatever schedule_event and run calls
\* are made.
C3_TimeMonotonic ==
    [][/\ engine'.current_time >= engine.current_time
       /\ IsDispatch => engine'.current_time = lastFired'.timestamp]_vars

\* C3 witness: in a second run call, a dispatch has advanced the time.
C3_Witness ==
    /\ runs = 2
    /\ pc = "running"
    /\ events_processed > 0
    /\ lastFired.timestamp = engine.current_time
    /\ engine.current_time > prev_time

\* C4: for every port, is_transmitting holds exactly when one switch_transmit
\* event for that (switch, port) is pending, and there are never two.
C4_OnePendingTransmitPerPort ==
    \A s \in DOMAIN switches : \A p \in PortsOf(s) :
        Cardinality(PendingTransmits(s, p)) =
            (IF switches[s].ports[p].is_transmitting THEN 1 ELSE 0)

\* C4 witness: a packet entered a non-empty queue of a transmitting port,
\* and one switch_transmit event is pending for the port.
C4_Witness ==
    \E s \in DOMAIN switches : \E p \in PortsOf(s) :
        /\ switches[s].ports[p].is_transmitting
        /\ Len(switches[s].ports[p].queue) >= 2
        /\ switches[s].ports[p].packets_sent >= 1
        /\ Cardinality(PendingTransmits(s, p)) = 1

\* C5: the queue of a port never holds more packets than max_queue_depth.
C5_QueueWithinCapacity ==
    \A s \in DOMAIN switches : \A p \in PortsOf(s) :
        Len(switches[s].ports[p].queue) <= switches[s].ports[p].max_queue_depth

\* C5 witness: a port is full and has refused a packet.
C5_Witness ==
    \E s \in DOMAIN switches : \E p \in PortsOf(s) :
        /\ Len(switches[s].ports[p].queue) = switches[s].ports[p].max_queue_depth
        /\ switches[s].ports[p].packets_dropped >= 1

\* The port a switch on the packet's route sent the packet out of.
EgressPort(s, packet) == switches[s].ports[switches[s].routing_table[packet.dst_device]]

\* Sum of the serialization delays of the ports the packet egressed.
RECURSIVE SumSerialization(_, _)
SumSerialization(packet, i) ==
    IF i > Len(packet.route) THEN 0
    ELSE serialization_ns(packet, EgressPort(packet.route[i], packet))
         + SumSerialization(packet, i + 1)

\* The latency recorded by the last record_packet_completion call.
LastLatency == stats.latencies[Len(stats.latencies)]

\* C6: the latency recorded for a completed packet is at least
\* hops * switch latency + device latency + the serialization delays of the
\* ports it egressed.
C6_LatencyLowerBound ==
    lastFired.event_type = "device_response" =>
        LastLatency >= Len(lastFired.packet.route) * CXL_SWITCH_LATENCY
                       + CXL_DEVICE_LATENCY
                       + SumSerialization(lastFired.packet, 1)

\* Scenario S2 has been run to completion: single tier, 1 host, 1 device,
\* capacity 16, one request to device 0 created and sent at t=0.
S2Completed ==
    /\ topology = TopologyMaps(create_topology(CfgS2))
    /\ Len(created) = 1
    /\ created[1].timestamp = 0
    /\ created[1].dst_device = 0
    /\ pc = "halted"
    /\ engine.event_queue = << >>

\* C7: in scenario S2 the request is received exactly once, its route is
\* [0] and its recorded latency is 30 + 150 + 8 = 188 ns.
C7_SingleHopLatency188 ==
    S2Completed =>
        /\ stats.packets_received = 1
        /\ hosts[0].packets_received = 1
        /\ lastFired.packet.route = <<0>>
        /\ stats.latencies = <<188>>

\* C8: when run has halted, requests created = packets received + packets
\* dropped by switches + packets in flight (carried by a pending host_send or
\* device_response event, or sitting in a port queue).
C8_Conservation ==
    pc = "halted" =>
        TotalCreated = stats.packets_received + TotalDropped + TotalCarried + TotalQueued

\* C8 witness: run halted on max_events or until with a packet received, a
\* packet dropped and a packet still carried by a pending event.
C8_Witness ==
    /\ pc = "halted"
    /\ stats.packets_received >= 1
    /\ TotalDropped >= 1
    /\ TotalCarried >= 1

\* C9: after request creations followed by a run, stats.packets_sent equals
\* the number of requests the hosts created.
C9_StatsPacketsSentCountsRequests ==
    pc = "halted" => stats.packets_sent = TotalCreated

\* C10: packets leave a port in the order in which they were accepted into
\* its queue, whatever their priority: the packets egressed so far are the
\* first packets accepted, in the same order.
C10_FifoPerPort ==
    \A s \in DOMAIN switches : \A p \in PortsOf(s) :
        LET log == port_log[s][p]
        IN /\ Len(log.egressed) <= Len(log.accepted)
           /\ \A i \in 1..Len(log.egressed) : log.egressed[i] = log.accepted[i]

\* The priority a packet was created with.
CreatedPriority(key) ==
    LET i == CHOOSE i \in DOMAIN created : PacketKey(created[i]) = key
    IN created[i].priority

\* C10 witness: a port has egressed a medium-priority packet and then a
\* critical one that waited behind it in the queue.
C10_Witness ==
    \E s \in DOMAIN switches : \E p \in PortsOf(s) :
        LET log == port_log[s][p]
        IN /\ Len(log.egressed) >= 2
           /\ CreatedPriority(log.egressed[1]) = PRIORITY_MEDIUM
           /\ CreatedPriority(log.egressed[2]) = PRIORITY_CRITICAL
           /\ switches[s].ports[p].packets_sent >= 2


\* ---------------------------------------------------------------- C12
\* The statistics C12 compares.
FinalStatistics(w) ==
    <<w.stats.total_events, w.stats.final_time, w.stats.packets_received, w.stats.latencies>>

\* The world after run(until=u1) followed by run(until=u2).
SplitRun(u1, u2) == run(topology, run(topology, World, u1, None), u2, None)

\* The world after the single run(until=u2).
SingleRun(u2) == run(topology, World, u2, None)

\* Before the first run call, with the initial events scheduled.
InitialEventsScheduled == pc = "idle" /\ runs = 0 /\ engine.event_queue # << >>

\* C12: from any set of initial events, run(until=500) followed by
\* run(until=1000) leaves the same final statistics (total_events,
\* final_time, packets_received, ordered latencies) as run(until=1000) alone.
C12_SplitRunEqualsSingleRun ==
    InitialEventsScheduled =>
        FinalStatistics(SplitRun(500, 1000)) = FinalStatistics(SingleRun(1000))

\* ---------------------------------------------------------------- C13
\* The step is a run call returning with an event still in the queue: the
\* call halted on until or on max_events.
IsHalt == pc = "running" /\ pc' = "halted" /\ engine.event_queue # << >>

\* C13: when run halts on until or on max_events the halting event is pending
\* afterwards, no handler ran (switches, hosts, drop list, port history and
\* recorded calls are untouched and nothing was dispatched), current_time is
\* unchanged and the pending events are those of before the pop; a call with
\* max_events dispatches at most max_events events and a call with until
\* dispatches no event later than until.
C13_HaltReinsertsEvent ==
    [][ /\ IsHalt =>
            /\ Popped.item \in PendingEvents'
            /\ PendingEvents' = PendingEvents
            /\ Len(engine'.event_queue) = Len(engine.event_queue)
            /\ engine'.current_time = engine.current_time
            /\ UNCHANGED <<switches, hosts, dropped_packets, port_log, calls,
                           lastFired, events_processed>>
            /\ stats'.packets_received = stats.packets_received
            /\ stats'.latencies = stats.latencies
        /\ IsDispatch =>
            /\ max_events # None => events_processed' <= max_events
            /\ until # None => lastFired'.timestamp <= until
      ]_vars

\* A call halted on max_events, not on until: max_events events dispatched
\* and the earliest pending event is not later than until.
C13_Witness ==
    /\ pc = "halted"
    /\ engine.event_queue # << >>
    /\ max_events # None
    /\ events_processed = max_events
    /\ MinPendingTimestamp <= until

\* ---------------------------------------------------------------- C14
\* The step is the driver's schedule_event call for a new request.
IsScheduleCall == created' # created

\* The request the last schedule_event call of the driver was made for.
LastCreated == created[Len(created)]

\* C14: schedule_event with a timestamp before current_time raises and leaves
\* the event queue and current_time as they were; with a timestamp equal to
\* current_time or later it adds exactly that event to the pending events.
C14_PastEventRefused ==
    [][ IsScheduleCall =>
            LET packet == created'[Len(created')]
            IN IF packet.timestamp < engine.current_time
               THEN /\ engine'.raised
                    /\ pc' = "aborted"
                    /\ engine'.event_queue = engine.event_queue
                    /\ engine'.current_time = engine.current_time
               ELSE /\ ~engine'.raised
                    /\ engine'.current_time = engine.current_time
                    /\ Len(engine'.event_queue) = Len(engine.event_queue) + 1
                    /\ \E e \in PendingEvents' \ PendingEvents :
                          /\ e.event_type = "host_send"
                          /\ e.packet = packet
                          /\ e.timestamp = packet.timestamp
                          /\ PendingEvents' = PendingEvents \cup {e}
      ]_vars

\* With current_time past 100, a request at an earlier time was refused.
C14_Witness ==
    /\ pc = "aborted"
    /\ engine.raised
    /\ created # << >>
    /\ engine.current_time >= 100
    /\ LastCreated.timestamp < engine.current_time
    /\ \A e \in PendingEvents : e.packet # LastCreated

\* ---------------------------------------------------------------- C15
\* The engine alone, driven as the engine tests drive it: recording handlers
\* registered for event kinds, bare events scheduled, run called.
MaxHandlers == 3
MaxProbes == 4

ProbeKinds == {"first", "second"}
ProbeHandlers == {"handler_a", "handler_b"}
ProbeTimes == {100, 300}

RegisterCall(event_type, handler) ==
    [op |-> "register", handler |-> handler, event_type |-> event_type, seq |-> None]

\* The register_handler calls made so far.
Registrations == SelectSeq(calls, LAMBDA c : c.op = "register")

\* The handler invocations made so far.
Invocations == SelectSeq(calls, LAMBDA c : c.op = "handler")

EngineInit ==
    LET t == create_topology(CfgS2)
    IN /\ topology = TopologyMaps(t)
       /\ switches = t.switches
       /\ hosts = t.hosts
       /\ engine = NewEngine
       /\ stats = NewStats
       /\ dropped_packets = << >>
       /\ pc = "idle"
       /\ until = None
       /\ max_events = None
       /\ events_processed = 0
       /\ runs = 0
       /\ lastFired = NoEvent
       /\ prev_time = 0
       /\ port_log = NewPortLog(t.switches)
       /\ created = << >>
       /\ calls = << >>

\* engine.register_handler(event_type, handler), called as the drivers do
\* before any event is scheduled.
Register(event_type, handler) ==
    /\ pc = "idle"
    /\ runs = 0
    /\ engine.next_seq = 0
    /\ Len(Registrations) < MaxHandlers
    /\ engine' = register_handler(engine, event_type, handler)
    /\ calls' = Append(calls, RegisterCall(event_type, handler))
    /\ UNCHANGED <<topology, switches, hosts, stats, dropped_packets, pc, until,
                   max_events, events_processed, runs, lastFired, prev_time, port_log,
                   created>>

\* engine.schedule_event(SimulationEvent(timestamp, event_type)), called as
\* the engine tests do before run.
ScheduleProbe(event_type, timestamp) ==
    /\ pc = "idle"
    /\ runs = 0
    /\ engine.next_seq < MaxProbes
    /\ LET eng == schedule_event(engine,
                      SimulationEvent(timestamp, event_type, NoPacket, None, None, None))
       IN /\ engine' = eng
          /\ pc' = IF eng.raised THEN "aborted" ELSE "idle"
    /\ UNCHANGED <<topology, switches, hosts, stats, dropped_packets, until, max_events,
                   events_processed, runs, lastFired, prev_time, port_log, created, calls>>

DispatchProbe == (\E event_type \in ProbeKinds : Dispatches(event_type)) /\ Dispatch

EngineNext ==
    \/ \E event_type \in ProbeKinds : \E handler \in ProbeHandlers :
           Register(event_type, handler)
    \/ \E event_type \in ProbeKinds : \E timestamp \in ProbeTimes :
           ScheduleProbe(event_type, timestamp)
    \/ \E args \in RunArgs : RunBegin(args)
    \/ RunReturn
    \/ RunHaltUntil
    \/ RunHaltMax
    \/ DispatchProbe

EngineSpec == EngineInit /\ [][EngineNext]_vars

\* The handlers register_handler was called with for a kind, in call order.
RegisteredFor(event_type) ==
    LET regs == SelectSeq(Registrations, LAMBDA c : c.event_type = event_type)
    IN [i \in 1..Len(regs) |-> regs[i].handler]

\* C15: a dispatched event invokes the handlers registered for its kind, each
\* once and in the order of the register_handler calls, and no other handler.
C15_HandlersInRegistrationOrder ==
    [][ IsDispatch =>
            calls' = calls \o
                [i \in 1..Len(RegisteredFor(Popped.item.event_type)) |->
                    [op |-> "handler",
                     handler |-> RegisteredFor(Popped.item.event_type)[i],
                     event_type |-> Popped.item.event_type,
                     seq |-> Popped.item.seq]]
      ]_vars

\* An event of a kind with two different handlers was dispatched while the
\* other kind had a handler of its own, which was not invoked.
C15_Witness ==
    /\ lastFired # NoEvent
    /\ Len(RegisteredFor(lastFired.event_type)) >= 2
    /\ RegisteredFor(lastFired.event_type)[1] # RegisteredFor(lastFired.event_type)[2]
    /\ \E k \in ProbeKinds \ {lastFired.event_type} : RegisteredFor(k) # << >>
    /\ Len(SelectSeq(Invocations, LAMBDA c : c.seq = lastFired.seq)) = 2

\* ---------------------------------------------------------------- C16
\* The route_packet call the handlers make for an event, if any: the switch
\* and the packet. handle_host_send always makes one; handle_switch_transmit
\* makes one when the packet it takes off the port goes on to another switch.
IngressOf(event) ==
    IF event.event_type = "host_send"
    THEN [happens |-> TRUE,
          sid |-> IF topology.kind = "single" THEN 0
                  ELSE topology.host_to_switch[event.host_id],
          packet |-> event.packet]
    ELSE IF event.event_type = "switch_transmit" /\ topology.kind # "single"
    THEN LET d == dequeue(switches[event.switch_id].ports[event.output_port])
             hop == get_next_hop(topology, event.switch_id, event.output_port,
                                 d.packet.dst_device)
         IN IF d.packet # NoPacket /\ hop[1] = "SWITCH"
            THEN [happens |-> TRUE, sid |-> hop[2],
                  packet |-> [d.packet EXCEPT !.route = Append(@, event.switch_id)]]
            ELSE [happens |-> FALSE, sid |-> None, packet |-> NoPacket]
    ELSE [happens |-> FALSE, sid |-> None, packet |-> NoPacket]

\* The ingress of the dispatch about to happen.
NextIngress == IngressOf(Popped.item)

IngressMapped ==
    /\ NextIngress.happens
    /\ NextIngress.packet.dst_device \in DOMAIN switches[NextIngress.sid].routing_table

\* The output port the ingress targets.
IngressPort == switches[NextIngress.sid].routing_table[NextIngress.packet.dst_device]

IngressToFullPort ==
    /\ IngressMapped
    /\ is_full(switches[NextIngress.sid].ports[IngressPort])

Min(a, b) == IF a <= b THEN a ELSE b

\* Ingress calls that targeted port p of switch s so far.
IngressCalls(s, p) == Len(port_log[s][p].accepted) + switches[s].ports[p].packets_dropped

\* With no egress yet, a port holds min(N, C) of the N packets sent to it
\* and has dropped the rest.
AcceptsUpToCapacity ==
    \A s \in DOMAIN switches : \A p \in PortsOf(s) :
        port_log[s][p].egressed = << >> =>
            LET port == switches[s].ports[p]
                n == IngressCalls(s, p)
            IN /\ Len(port.queue) = Min(n, port.max_queue_depth)
               /\ port.packets_dropped = n - Min(n, port.max_queue_depth)

\* Four requests at t=0 to device 0 on the single switch of capacity 2, run
\* to completion.
FourAtOnceDone ==
    /\ topology.kind = "single"
    /\ topology.queue_depth = 2
    /\ Len(created) = 4
    /\ \A i \in 1..Len(created) : created[i].timestamp = 0 /\ created[i].dst_device = 0
    /\ pc = "halted"
    /\ runs = 1
    /\ until = None
    /\ engine.event_queue = << >>

FourAtOnceOutcome ==
    FourAtOnceDone =>
        /\ switches[0].total_packets_processed = 4
        /\ switches[0].total_packets_dropped >= 1
        /\ switches[0].ports[switches[0].routing_table[0]].packets_dropped >= 1
        /\ stats.packets_received <= 3

\* C16: an ingress to a port whose queue is at capacity is rejected, adds one
\* to the port's and the switch's dropped counters and one to the switch's
\* processed counter, leaves the queue as it was and schedules no event; with
\* no egress in between a port accepts min(N, C) of N packets; four requests
\* at once with capacity 2 end with processed = 4, a drop and at most 3
\* received.
C16_FullPortRejects ==
    [][ /\ AcceptsUpToCapacity'
        /\ FourAtOnceOutcome'
        /\ IsDispatch /\ IngressToFullPort =>
            /\ ~route_packet(switches[NextIngress.sid], NextIngress.packet, None, Advanced).ok
            /\ switches'[NextIngress.sid].ports[IngressPort].packets_dropped =
                   switches[NextIngress.sid].ports[IngressPort].packets_dropped + 1
            /\ switches'[NextIngress.sid].total_packets_dropped =
                   switches[NextIngress.sid].total_packets_dropped + 1
            /\ switches'[NextIngress.sid].total_packets_processed =
                   switches[NextIngress.sid].total_packets_processed + 1
            /\ switches'[NextIngress.sid].ports[IngressPort].queue =
                   switches[NextIngress.sid].ports[IngressPort].queue
            /\ topology.kind # "single" =>
                   dropped_packets' = Append(dropped_packets, PacketKey(NextIngress.packet))
            /\ \A e \in PendingEvents' \ PendingEvents :
                   e.event_type = "switch_transmit" /\ e.switch_id # NextIngress.sid
            /\ ~engine'.raised
      ]_vars

\* The four requests done: two accepted and received, two dropped at the
\* full port.
C16_Witness ==
    /\ FourAtOnceDone
    /\ switches[0].ports[switches[0].routing_table[0]].packets_dropped = 2
    /\ stats.packets_received = 2


\* ---------------------------------------------------------------- C17
IngressUnmapped == NextIngress.happens /\ ~IngressMapped

\* C17: an ingress of a packet whose dst_device the switch has no route for
\* is rejected, adds one to the switch's processed and dropped counters,
\* changes no port of the switch and schedules no event, and the run goes on.
C17_UnmappedDropped ==
    [][ IsDispatch /\ IngressUnmapped =>
            /\ ~route_packet(switches[NextIngress.sid], NextIngress.packet, None, Advanced).ok
            /\ switches'[NextIngress.sid].total_packets_processed =
                   switches[NextIngress.sid].total_packets_processed + 1
            /\ switches'[NextIngress.sid].total_packets_dropped =
                   switches[NextIngress.sid].total_packets_dropped + 1
            /\ switches'[NextIngress.sid].ports = switches[NextIngress.sid].ports
            /\ topology.kind # "single" =>
                   dropped_packets' = Append(dropped_packets, PacketKey(NextIngress.packet))
            /\ \A e \in PendingEvents' \ PendingEvents :
                   e.event_type = "switch_transmit" /\ e.switch_id # NextIngress.sid
            /\ ~engine'.raised
            /\ pc' = "running"
      ]_vars

\* A packet without a route was dropped at ingress and a later event was
\* dispatched in the same run.
C17_Witness ==
    /\ pc = "running"
    /\ \E i \in 1..Len(created) :
          /\ created[i].dst_device \notin DOMAIN switches[0].routing_table
          /\ \A e \in PendingEvents : e.packet # created[i]
    /\ \E s \in DOMAIN switches :
          /\ switches[s].total_packets_dropped >= 1
          /\ \A p \in PortsOf(s) : switches[s].ports[p].packets_dropped = 0
    /\ lastFired.event_type = "device_response"

\* ---------------------------------------------------------------- C18
\* A switch of a built fabric reconfigured by set_route calls, as the switch
\* test calls it; a caller that catches ValueError goes on calling.
MaxRouteCalls == 3

\* Output ports the calls draw from: one below and one above the switch's.
RoutePorts(sw) == -1..sw.num_ports

\* Devices the calls draw from: the fabric's and one more.
RouteDevices == 0..topology.num_devices

SetRouteCall(s, dst_device, output_port, r) ==
    [op |-> "set_route", switch_id |-> s, dst_device |-> dst_device,
     output_port |-> output_port, raised |-> r.raised,
     unchanged |-> r.sw.routing_table = switches[s].routing_table]

\* switches[s].set_route(dst_device, output_port)
SetRoute(s, dst_device, output_port) ==
    /\ Len(calls) < MaxRouteCalls
    /\ LET r == set_route(switches[s], dst_device, output_port)
       IN /\ switches' = [switches EXCEPT ![s] = r.sw]
          /\ calls' = Append(calls, SetRouteCall(s, dst_device, output_port, r))
    /\ UNCHANGED <<topology, hosts, engine, stats, dropped_packets, pc, until,
                   max_events, events_processed, runs, lastFired, prev_time, port_log,
                   created>>

RouteNext ==
    \E s \in DOMAIN switches : \E dst_device \in RouteDevices :
        \E output_port \in RoutePorts(switches[s]) : SetRoute(s, dst_device, output_port)

RouteSpec == EngineInit /\ [][RouteNext]_vars

ValidPort(sw, p) == 0 <= p /\ p < sw.num_ports

\* C18: after any sequence of set_route calls every routing table entry is a
\* port index p of its switch with 0 <= p < num_ports, and every call with a
\* port outside that range, a negative one included, raised and left the
\* table unchanged.
C18_RoutesValid ==
    /\ \A s \in DOMAIN switches : \A d \in DOMAIN switches[s].routing_table :
           ValidPort(switches[s], switches[s].routing_table[d])
    /\ \A i \in 1..Len(calls) :
           (calls[i].op = "set_route"
               /\ ~ValidPort(switches[calls[i].switch_id], calls[i].output_port))
           => calls[i].raised /\ calls[i].unchanged

\* ---------------------------------------------------------------- C19
\* C19: on a fabric with two or more hosts no two packets returned by
\* generate_memory_request, of one host or of two, carry the same packet_id.
C19_PacketIdsUnique ==
    Cardinality(DOMAIN hosts) >= 2 =>
        \A i, j \in 1..Len(created) :
            i # j => created[i].packet_id # created[j].packet_id

\* ---------------------------------------------------------------- C20
\* The pending events whose payload is the packet with the given key.
EventHolders(key) ==
    {i \in DOMAIN engine.event_queue :
        /\ engine.event_queue[i].packet # NoPacket
        /\ PacketKey(engine.event_queue[i].packet) = key}

\* The port queue positions that hold the packet with the given key.
QueueHolders(key) ==
    {<<s, p, i>> \in UNION {UNION {{<<s, p, i>> : i \in DOMAIN switches[s].ports[p].queue} :
                                      p \in PortsOf(s)} : s \in DOMAIN switches} :
        PacketKey(switches[s].ports[p].queue[i]) = key}

CreatedKeys == {PacketKey(created[i]) : i \in DOMAIN created}

\* C20: every packet is held by at most one holder at a time: the payload of
\* one pending event or one position of one port queue.
C20_OneHolderPerPacket ==
    \A key \in CreatedKeys :
        Cardinality(EventHolders(key)) + Cardinality(QueueHolders(key)) <= 1

\* A packet that crossed a switch waits in a queue of the next one while
\* another packet is the payload of a pending event.
C20_Witness ==
    \E k1, k2 \in CreatedKeys :
        /\ k1 # k2
        /\ \E h \in QueueHolders(k1) : switches[h[1]].ports[h[2]].queue[h[3]].route # << >>
        /\ EventHolders(k2) # {}

\* ---------------------------------------------------------------- C21
\* The packet ids a host has issued so far.
IssuedBy(h) == {created[i].packet_id : i \in {j \in DOMAIN created : created[j].src_host = h}}

\* What generate_memory_request returns for a request on a host: the packet
\* carries the host's id and the request's arguments.
ReturnsRequested(h, req) ==
    LET g == generate_memory_request(hosts[h], req.dst_device, req.address,
                                     req.is_read, req.priority, req.timestamp)
    IN /\ g.packet.src_host = hosts[h].host_id
       /\ g.packet.dst_device = req.dst_device
       /\ g.packet.tx_type = (IF req.is_read THEN "MEM_READ" ELSE "MEM_WRITE")
       /\ g.packet.address = req.address
       /\ g.packet.packet_id \notin IssuedBy(h)
       /\ g.host.packets_sent = hosts[h].packets_sent + 1
       /\ g.packet.packet_id \notin hosts[h].outstanding_requests
       /\ g.host.outstanding_requests =
              hosts[h].outstanding_requests \cup {g.packet.packet_id}

\* C21: generate_memory_request returns a packet with an id the host has not
\* issued before, the host's id as src_host and the requested dst_device and
\* kind; the host's sent counter grows by one and exactly that id joins the
\* outstanding set.
C21_RequestFresh ==
    [][ /\ \A h \in DOMAIN hosts : \A req \in RequestInputs : ReturnsRequested(h, req)
        /\ IsScheduleCall =>
              \E h \in DOMAIN hosts : \E req \in RequestInputs :
                 LET packet == created'[Len(created')]
                 IN /\ \A h2 \in DOMAIN hosts \ {h} : hosts'[h2] = hosts[h2]
                    /\ packet.src_host = h
                    /\ packet.dst_device = req.dst_device
                    /\ packet.tx_type = (IF req.is_read THEN "MEM_READ" ELSE "MEM_WRITE")
                    /\ packet.packet_id \notin IssuedBy(h)
                    /\ hosts'[h].packets_sent = hosts[h].packets_sent + 1
                    /\ packet.packet_id \notin hosts[h].outstanding_requests
                    /\ hosts'[h].outstanding_requests =
                           hosts[h].outstanding_requests \cup {packet.packet_id}
      ]_vars

\* A host that has had a response issued a write afterwards.
C21_Witness ==
    /\ created # << >>
    /\ LastCreated.tx_type = "MEM_WRITE"
    /\ hosts[LastCreated.src_host].packets_received >= 1
    /\ hosts[LastCreated.src_host].packets_sent >= 2
    /\ LastCreated.packet_id \in hosts[LastCreated.src_host].outstanding_requests
    /\ EventHolders(PacketKey(LastCreated)) # {}

\* ---------------------------------------------------------------- C22
\* A host alone, driven as the host tests drive it: requests generated and
\* responses handed in, for outstanding, answered and never issued ids.
MaxResponses == 3

\* Packet ids the responses draw from: the ones a host can have issued and
\* one more.
ResponseIds == 0..MaxRequests

ResponseCall(h, packet) ==
    [op |-> "receive_response", host_id |-> h, packet_id |-> packet.packet_id,
     outstanding |-> packet.packet_id \in hosts[h].outstanding_requests]

\* packet = host.generate_memory_request(...)
HostGenerate(h, req) ==
    /\ hosts[h].packets_sent < MaxRequests
    /\ LET g == generate_memory_request(hosts[h], req.dst_device, req.address,
                                        req.is_read, req.priority, req.timestamp)
       IN /\ hosts' = [hosts EXCEPT ![h] = g.host]
          /\ created' = Append(created, g.packet)
    /\ UNCHANGED <<topology, switches, engine, stats, dropped_packets, pc, until,
                   max_events, events_processed, runs, lastFired, prev_time, port_log,
                   calls>>

\* host.receive_response(packet)
HostReceive(h, packet_id) ==
    /\ Len(calls) < MaxResponses
    /\ LET packet == CXLPacket(packet_id, "MEM_READ", h, 0, 0, PRIORITY_MEDIUM, 0)
       IN /\ hosts' = [hosts EXCEPT ![h] = receive_response(@, packet)]
          /\ calls' = Append(calls, ResponseCall(h, packet))
    /\ UNCHANGED <<topology, switches, engine, stats, dropped_packets, pc, until,
                   max_events, events_processed, runs, lastFired, prev_time, port_log,
                   created>>

HostNext ==
    \/ \E h \in DOMAIN hosts : \E req \in RequestInputs : HostGenerate(h, req)
    \/ \E h \in DOMAIN hosts : \E packet_id \in ResponseIds : HostReceive(h, packet_id)

HostSpec == EngineInit /\ [][HostNext]_vars

IsResponseCall == calls' # calls

\* C22: receive_response adds one to the host's received counter whatever
\* the packet; an outstanding id leaves the outstanding set, any other id
\* (never issued, or answered before) leaves the set as it was; nothing else
\* of the host changes.
C22_ResponseCounted ==
    [][ IsResponseCall =>
            LET c == calls'[Len(calls')]
                h == c.host_id
            IN /\ hosts'[h].packets_received = hosts[h].packets_received + 1
               /\ hosts'[h].outstanding_requests =
                      IF c.packet_id \in hosts[h].outstanding_requests
                      THEN hosts[h].outstanding_requests \ {c.packet_id}
                      ELSE hosts[h].outstanding_requests
               /\ c.packet_id \notin hosts'[h].outstanding_requests
               /\ hosts'[h].packets_sent = hosts[h].packets_sent
               /\ hosts'[h].next_packet_id = hosts[h].next_packet_id
      ]_vars

\* A host has been handed a response to an outstanding request, the same
\* response again, and a response to a request it never issued.
C22_Witness ==
    /\ Len(calls) = 3
    /\ calls[1].outstanding
    /\ calls[2].packet_id = calls[1].packet_id
    /\ ~calls[2].outstanding
    /\ calls[3].packet_id \notin IssuedBy(calls[3].host_id)
    /\ hosts[calls[3].host_id].packets_received = 3

\* ---------------------------------------------------------------- C23
\* Switches a packet crosses between its host and its device.
Hops == IF topology.kind = "single" THEN 1 ELSE 3

\* Events a request can cause in all: its host_send, a switch_transmit per
\* switch it crosses and its device_response.
EventsPerRequest == Hops + 2

\* Events dispatched so far: the scheduled ones that are no longer pending.
Dispatched == engine.next_seq - Len(engine.event_queue)

\* Nothing is left in the fabric: no pending event, no queued packet, no
\* port transmitting, every accepted packet egressed.
Drained ==
    /\ engine.event_queue = << >>
    /\ \A s \in DOMAIN switches : \A p \in PortsOf(s) :
          /\ switches[s].ports[p].queue = << >>
          /\ ~switches[s].ports[p].is_transmitting
          /\ port_log[s][p].egressed = port_log[s][p].accepted

Unbounded == until = None /\ max_events = None

\* C23: a run call without until and max_events terminates: every iteration
\* consumes one event, for which a handler is registered, and raises
\* nothing, and the events ever scheduled are at most EventsPerRequest per
\* request created, so the loop ends after at most that many iterations; at
\* its return the event queue and every port queue are empty, no port is
\* transmitting and every accepted packet has been egressed.
C23_RunDrains ==
    [][ /\ IsDispatch =>
              /\ Dispatched' = Dispatched + 1
              /\ engine'.next_seq <= EventsPerRequest * Len(created')
        /\ (pc = "running" /\ Unbounded) =>
              /\ pc' \in {"running", "halted"}
              /\ engine.event_queue # << >> =>
                     /\ IsDispatch
                     /\ HandlersFor(engine, Popped.item.event_type) # << >>
              /\ pc' = "halted" => Drained'
      ]_vars

\* A run over several requests, one of them dropped, has returned drained.
C23_Witness ==
    /\ pc = "halted"
    /\ Unbounded
    /\ Drained
    /\ stats.packets_received >= 2
    /\ TotalDropped >= 1

\* ---------------------------------------------------------------- C24
\* The hotspot scenario of the multi-switch driver: every host sends
\* requests_per_host requests to device 0, evenly spaced over duration_ns,
\* then run(until=20000).
requests_per_host == 50
duration_ns == 5000
hotspot_device == 0

\* Two spines, three leaves, two hosts and one device per leaf, capacity 8.
CfgHotspot == TwoTierCfg(2, 3, 2, 1, 8)

HotspotRunArgs == [until |-> 20000, max_events |-> None]

HotspotRequests == Cardinality(DOMAIN hosts) * requests_per_host

ScenarioInit ==
    LET t == create_topology(CfgHotspot)
    IN /\ ~t.raised
       /\ topology = TopologyMaps(t)
       /\ switches = t.switches
       /\ hosts = t.hosts
       /\ engine = DriverEngine
       /\ stats = NewStats
       /\ dropped_packets = << >>
       /\ pc = "idle"
       /\ until = None
       /\ max_events = None
       /\ events_processed = 0
       /\ runs = 0
       /\ lastFired = NoEvent
       /\ prev_time = 0
       /\ port_log = NewPortLog(t.switches)
       /\ created = << >>
       /\ calls = << >>

\* One iteration of the nested generation loop: for host in topology.hosts,
\* for i in range(requests_per_host).
ScenarioGenerate ==
    /\ pc = "idle"
    /\ runs = 0
    /\ Len(created) < HotspotRequests
    /\ LET h == Len(created) \div requests_per_host
           i == Len(created) % requests_per_host
           interval == duration_ns \div requests_per_host
           timestamp == i * interval
           g == generate_memory_request(hosts[h], hotspot_device, 4096 * i, TRUE,
                                        PRIORITY_MEDIUM, timestamp)
           event == SimulationEvent(timestamp, "host_send", g.packet, None, None, h)
           eng == schedule_event(engine, event)
       IN /\ hosts' = [hosts EXCEPT ![h] = g.host]
          /\ engine' = eng
          /\ pc' = IF eng.raised THEN "aborted" ELSE "idle"
          /\ created' = Append(created, g.packet)
    /\ UNCHANGED <<topology, switches, stats, dropped_packets, until, max_events,
                   events_processed, runs, lastFired, prev_time, port_log, calls>>

\* stats = engine.run(until=20_000), once the traffic is generated.
ScenarioRun ==
    /\ Len(created) = HotspotRequests
    /\ runs = 0
    /\ RunBegin(HotspotRunArgs)

ScenarioNext ==
    \/ ScenarioGenerate
    \/ ScenarioRun
    \/ RunReturn
    \/ DispatchHostSend
    \/ DispatchSwitchTransmit
    \/ DispatchDeviceResponse

ScenarioSpec == ScenarioInit /\ [][ScenarioNext]_vars

\* The run of the scenario has returned with nothing pending.
ScenarioDone == pc = "halted" /\ engine.event_queue = << >>

\* C24: the complete run of the hotspot scenario ends with a non-zero total
\* number of dropped packets.
C24_HotspotDrops == ScenarioDone => TotalDropped > 0

\* ---------------------------------------------------------------- C25
\* The path of a packet on the two-tier fabric: its host's leaf, spine 0,
\* its device's leaf.
ExpectedRoute(packet) ==
    <<topology.host_to_switch[packet.src_host], 0,
      topology.device_to_switch[packet.dst_device]>>

\* C25: on a two-tier fabric every received packet has a route of length at
\* least 2, namely its host's leaf, spine 0 and its device's leaf in that
\* order; host leaves send everything out of port 0 and no spine other than
\* spine 0 processes a packet.
C25_RouteThroughSpineZero ==
    topology.kind = "two_tier" =>
        /\ \A e \in PendingEvents \cup {lastFired} :
              e.event_type = "device_response" =>
                  /\ Len(e.packet.route) >= 2
                  /\ e.packet.route = ExpectedRoute(e.packet)
        /\ \A s \in 1..(topology.num_spines - 1) : switches[s].total_packets_processed = 0
        /\ \A j \in DOMAIN topology.host_leaves :
              \A p \in PortsOf(topology.host_leaves[j]) \ {0} :
                  port_log[topology.host_leaves[j]][p].accepted = << >>

\* Packets of two hosts on different leaves have been received.
C25_Witness ==
    /\ topology.kind = "two_tier"
    /\ lastFired.event_type = "device_response"
    /\ \E h \in DOMAIN hosts :
          /\ topology.host_to_switch[h] # topology.host_to_switch[lastFired.packet.src_host]
          /\ hosts[h].packets_received >= 1

\* ---------------------------------------------------------------- C26
\* A quotient of the statistics, kept exact as numerator and denominator;
\* a zero denominator stands for the ZeroDivisionError of the division.
Ratio(n, d) == [num |-> n, den |-> d]

IsZero(r) == r.num = 0 /\ r.den # 0

\* The average computed without the guard on packets_received.
avg_latency_unguarded(st) == Ratio(st.total_latency, st.packets_received)

\* SimulationStats.avg_latency
avg_latency(st) ==
    IF st.packets_received = 0 THEN Ratio(0, 1)
    ELSE Ratio(st.total_latency, st.packets_received)

\* int(n / d) for d > 0: the quotient truncated toward zero.
Trunc(n, d) == IF n >= 0 THEN n \div d ELSE -((-n) \div d)

\* SimulationStats.percentile_latency: the value returned, or raised for the
\* IndexError of the list; a negative index counts from the end of the list.
percentile_latency(st, p) ==
    IF st.latencies = << >> THEN [value |-> 0, raised |-> FALSE]
    ELSE LET sorted_latencies == SortSeq(st.latencies, LAMBDA a, b : a < b)
             n == Len(sorted_latencies)
             idx == Trunc(n * p, 100)
             i == Min(idx, n - 1)
         IN IF i < -n
            THEN [value |-> 0, raised |-> TRUE]
            ELSE [value |-> sorted_latencies[(IF i >= 0 THEN i ELSE n + i) + 1],
                  raised |-> FALSE]

Percentiles == {0, 50, 95, 99, 100}

EmptyStatistics(st) ==
    st.packets_received = 0 =>
        /\ IsZero(avg_latency(st))
        /\ \A p \in Percentiles :
              percentile_latency(st, p) = [value |-> 0, raised |-> FALSE]

\* C26: a run call on an engine on which nothing was ever scheduled returns
\* at once with total_events = 0, packets_received = 0 and final_time = 0,
\* and as long as no packet has completed avg_latency and percentile_latency
\* return 0.
C26_EmptyRunAndStatistics ==
    [][ /\ EmptyStatistics(stats)
        /\ EmptyStatistics(stats')
        /\ (pc = "running" /\ engine.next_seq = 0) =>
              /\ pc' = "halted"
              /\ stats'.total_events = 0
              /\ stats'.packets_received = 0
              /\ stats'.final_time = 0
              /\ run(topology, World, until, max_events).stats = stats'
      ]_vars

\* A run call has returned on an engine that never held an event.
C26_Witness ==
    /\ pc = "halted"
    /\ engine.next_seq = 0
    /\ runs >= 1
    /\ stats.latencies = << >>

\* ---------------------------------------------------------------- C27
\* WorkloadPattern.__init__ and the constructors of its subclasses, with the
\* default arguments; fractions are kept exact.
WorkloadPattern(kind, seed) == [kind |-> kind, seed |-> seed]

UniformRandomWorkload(seed) == WorkloadPattern("uniform", seed)

ZipfianWorkload(seed) ==
    WorkloadPattern("zipfian", seed) @@
        [alpha |-> Ratio(1, 1), hot_device_fraction |-> Ratio(1, 5)]

HotspotWorkload(seed) ==
    WorkloadPattern("hotspot", seed) @@
        [hotspot_device |-> 0, hotspot_fraction |-> Ratio(4, 5)]

BurstyWorkload(seed) ==
    WorkloadPattern("bursty", seed) @@ [burst_size |-> 10, burst_interval_ns |-> 1000]

SequentialWorkload(seed) == WorkloadPattern("sequential", seed) @@ [stride |-> 64]

\* The keys of the workloads dictionary of create_workload.
workloads == {"uniform", "zipfian", "hotspot", "bursty", "sequential"}

\* create_workload(workload_type, seed=...); raised is the ValueError.
create_workload(workload_type, seed) ==
    IF workload_type \notin workloads
    THEN [raised |-> TRUE, workload |-> None]
    ELSE [raised |-> FALSE,
          workload |-> CASE workload_type = "uniform"    -> UniformRandomWorkload(seed)
                         [] workload_type = "zipfian"    -> ZipfianWorkload(seed)
                         [] workload_type = "hotspot"    -> HotspotWorkload(seed)
                         [] workload_type = "bursty"     -> BurstyWorkload(seed)
                         [] workload_type = "sequential" -> SequentialWorkload(seed)]

\* Largest number of spines, of hosts and of devices of the fabrics built.
MaxFabric == 2

QueueDepths == {2, 16}

\* Keyword arguments the factory is called with, per kind of fabric.
SingleArgs ==
    {SingleCfg(nh, nd, qd) : nh \in 1..MaxFabric, nd \in 1..MaxFabric, qd \in QueueDepths}

TwoTierArgs ==
    UNION {{TwoTierCfg(ns, nl, hpl, dpl, qd) : hpl \in 0..MaxFabric, dpl \in 0..MaxFabric,
                                             qd \in QueueDepths} :
              ns \in 1..MaxFabric, nl \in 1..(MaxFabric + 1)}

\* Names create_topology and create_workload do not know.
UnknownTopologyKinds == {"mesh", "Single"}

UnknownWorkloadKinds == {"random", "Hotspot"}

TopologyArgs ==
    SingleArgs \cup TwoTierArgs \cup
    {[cfg EXCEPT !.kind = k] : cfg \in SingleArgs \cup TwoTierArgs, k \in UnknownTopologyKinds}

WorkloadSeeds == {None, 42}

TopologyCall(cfg, raised) == [op |-> "create_topology", cfg |-> cfg, raised |-> raised]

WorkloadCall(workload_type, seed, r) ==
    [op |-> "create_workload", workload_type |-> workload_type, seed |-> seed,
     raised |-> r.raised, workload |-> r.workload]

\* The driver after its handlers are registered and before create_topology.
BuildInit ==
    /\ topology = TopologyMaps(Unbuilt)
    /\ switches = Unbuilt.switches
    /\ hosts = Unbuilt.hosts
    /\ engine = DriverEngine
    /\ stats = NewStats
    /\ dropped_packets = << >>
    /\ pc = "start"
    /\ until = None
    /\ max_events = None
    /\ events_processed = 0
    /\ runs = 0
    /\ lastFired = NoEvent
    /\ prev_time = 0
    /\ port_log = NewPortLog(Unbuilt.switches)
    /\ created = << >>
    /\ calls = << >>

\* topology = create_topology(kind, **kwargs); the ValueError ends the program
\* with the assignment not made.
CreateTopology(cfg) ==
    /\ pc = "start"
    /\ \E t \in {create_topology(cfg)} :
          /\ calls' = Append(calls, TopologyCall(cfg, t.raised))
          /\ pc' = IF t.raised THEN "aborted" ELSE "built"
          /\ topology' = IF t.raised THEN topology ELSE TopologyMaps(t)
          /\ switches' = IF t.raised THEN switches ELSE t.switches
          /\ hosts' = IF t.raised THEN hosts ELSE t.hosts
          /\ port_log' = IF t.raised THEN port_log ELSE NewPortLog(t.switches)
    /\ UNCHANGED <<engine, stats, dropped_packets, until, max_events, events_processed,
                   runs, lastFired, prev_time, created>>

\* workload = create_workload(kind, **kwargs)
CreateWorkload(workload_type, seed) ==
    /\ pc = "built"
    /\ \E r \in {create_workload(workload_type, seed)} :
          /\ calls' = Append(calls, WorkloadCall(workload_type, seed, r))
          /\ pc' = IF r.raised THEN "aborted" ELSE "ready"
    /\ UNCHANGED <<topology, switches, hosts, engine, stats, dropped_packets, until,
                   max_events, events_processed, runs, lastFired, prev_time, port_log,
                   created>>

BuildNext ==
    \/ \E cfg \in TopologyArgs : CreateTopology(cfg)
    \/ \E workload_type \in workloads \cup UnknownWorkloadKinds :
          \E seed \in WorkloadSeeds : CreateWorkload(workload_type, seed)

BuildSpec == BuildInit /\ [][BuildNext]_vars

LastCall == calls[Len(calls)]

NothingCreated ==
    /\ switches = << >>
    /\ hosts = << >>
    /\ created = << >>
    /\ engine.event_queue = << >>
    /\ engine.next_seq = 0

\* C27: create_topology with a kind other than "single" and "two_tier" and
\* create_workload with a kind other than the five known ones raise, and the
\* failed call has created no switch, host, request or event; the known
\* kinds do not raise.
C27_UnknownKindsRaise ==
    calls # << >> =>
        /\ LastCall.op = "create_topology" =>
              /\ LastCall.raised <=> LastCall.cfg.kind \notin {"single", "two_tier"}
              /\ LastCall.raised => pc = "aborted" /\ NothingCreated
              /\ ~LastCall.raised => switches # << >>
        /\ LastCall.op = "create_workload" =>
              /\ LastCall.raised <=> LastCall.workload_type \notin workloads
              /\ LastCall.raised => pc = "aborted" /\ LastCall.workload = None
              /\ ~LastCall.raised => LastCall.workload.kind = LastCall.workload_type
              /\ created = << >>
              /\ engine.event_queue = << >>

\* create_topology has failed on an unknown kind.
C27_Witness ==
    /\ pc = "aborted"
    /\ LastCall.op = "create_topology"
    /\ LastCall.raised
    /\ LastCall.cfg.kind = "mesh"

\* ---------------------------------------------------------------- C28
Max(a, b) == IF a >= b THEN a ELSE b

\* The switch_transmit events the step has scheduled.
NewTransmits ==
    {e \in {engine'.event_queue[i] : i \in DOMAIN engine'.event_queue} :
        e.seq >= engine.next_seq /\ e.event_type = "switch_transmit"}

\* port.next_available_time of the port a switch_transmit event is for, at
\* the moment the event was scheduled (the step changes it no more).
NextFreeOf(e) == switches'[e.switch_id].ports[e.output_port].next_available_time

\* C28: every switch_transmit event the switch schedules, from ingress or
\* from egress, has the timestamp max(current_time + 30, next_free of its
\* port), so it is never earlier than current_time + 30.
C28_TransmitAfterSwitchLatency ==
    [][ \A e \in NewTransmits :
            /\ e.timestamp = Max(engine'.current_time + CXL_SWITCH_LATENCY, NextFreeOf(e))
            /\ e.timestamp >= engine'.current_time + CXL_SWITCH_LATENCY
      ]_vars

\* ---------------------------------------------------------------- C29
\* The step is a switch_transmit dispatch whose transmit_packet call on port
\* p of switch s returned a packet.
IsEgress(s, p) ==
    /\ IsDispatch
    /\ lastFired'.event_type = "switch_transmit"
    /\ port_log'[s][p].egressed # port_log[s][p].egressed

\* C29: a packet leaves a port no earlier than the port's next_free time,
\* which the previous egress set to its own time plus the serialization
\* delay of its packet; a port sends at most one packet per serialization
\* window, also for packets that arrived into a non-empty queue.
C29_EgressesSeparated ==
    [][ \A s \in DOMAIN switches : \A p \in PortsOf(s) :
            IsEgress(s, p) =>
                engine'.current_time >= switches[s].ports[p].next_available_time
      ]_vars

\* A port has sent a second packet, one that waited in its queue behind the
\* first.
C29_Witness ==
    \E s \in DOMAIN switches : \E p \in PortsOf(s) :
        /\ Len(port_log[s][p].egressed) >= 2
        /\ lastFired.event_type = "switch_transmit"
        /\ lastFired.switch_id = s
        /\ lastFired.output_port = p
        /\ switches[s].ports[p].next_available_time = engine.current_time + 8
        /\ switches[s].ports[p].packets_sent >= 2

\* ---------------------------------------------------------------- C30
\* The engine as the handlers of the event being dispatched see it.
EngineAtDispatch ==
    [engine EXCEPT !.event_queue = Popped.heap, !.current_time = Popped.item.timestamp]

\* The switch_transmit events the step has scheduled for port p of switch s.
NewTransmitsFor(s, p) == {e \in NewTransmits : e.switch_id = s /\ e.output_port = p}

\* C30: an egress on a port with a non-empty queue removes exactly the head
\* packet, appends the switch's id to that packet's route, sets next_free to
\* current_time + size * 8 / bandwidth (8 ns), adds one to the port's sent
\* counter, and then schedules exactly one switch_transmit event for the
\* port if packets remain, or else clears is_transmitting; no other port of
\* the switch changes.
C30_EgressEffect ==
    [][ \A s \in DOMAIN switches : \A p \in PortsOf(s) :
            IsEgress(s, p) =>
                LET port == switches[s].ports[p]
                    port1 == switches'[s].ports[p]
                    head == Head(port.queue)
                    t == transmit_packet(switches[s], p, EngineAtDispatch)
                IN /\ port.queue # << >>
                   /\ switches'[s] = t.sw
                   /\ t.packet = [head EXCEPT !.route = Append(head.route, s)]
                   /\ port1.queue = Tail(port.queue)
                   /\ port1.next_available_time =
                          engine'.current_time + (head.size * 8) \div port.bandwidth_gbps
                   /\ port1.next_available_time = engine'.current_time + 8
                   /\ port1.packets_sent = port.packets_sent + 1
                   /\ IF port1.queue # << >>
                      THEN /\ Cardinality(NewTransmitsFor(s, p)) = 1
                           /\ Len(t.eng.event_queue) = Len(EngineAtDispatch.event_queue) + 1
                           /\ port1.is_transmitting
                      ELSE /\ NewTransmitsFor(s, p) = {}
                           /\ t.eng = EngineAtDispatch
                           /\ ~port1.is_transmitting
                   /\ \A q \in PortsOf(s) \ {p} : switches'[s].ports[q] = switches[s].ports[q]
      ]_vars

\* An egress has left packets in the queue and the next transmission of the
\* port is pending.
C30_Witness ==
    /\ lastFired.event_type = "switch_transmit"
    /\ LET port == switches[lastFired.switch_id].ports[lastFired.output_port]
       IN /\ port.queue # << >>
          /\ port.is_transmitting
          /\ port.packets_sent >= 1
          /\ port.next_available_time = engine.current_time + 8
          /\ \E e \in PendingEvents :
                /\ e.event_type = "switch_transmit"
                /\ e.switch_id = lastFired.switch_id
                /\ e.output_port = lastFired.output_port

\* ---------------------------------------------------------------- C31
\* The packet objects the fabric holds: payloads of pending events and
\* entries of port queues.
HeldPackets ==
    {e.packet : e \in {x \in PendingEvents : x.packet # NoPacket}} \cup
    UNION {UNION {{switches[s].ports[p].queue[i] : i \in DOMAIN switches[s].ports[p].queue} :
                     p \in PortsOf(s)} : s \in DOMAIN switches}

IsPrefix(a, b) == Len(a) <= Len(b) /\ SubSeq(b, 1, Len(a)) = a

\* The packet as generate_memory_request returned it.
Origin(packet) ==
    CHOOSE c \in {created[i] : i \in DOMAIN created} : PacketKey(c) = PacketKey(packet)

\* C31: over the life of a packet its id, source host, destination device
\* and creation timestamp (and every field but the route) stay as created;
\* the route only grows by appending, and a switch id is appended only by the
\* step in which that switch egresses the packet.
C31_PacketStable ==
    [][ \A q \in (HeldPackets' \cup {lastFired'.packet}) \ {NoPacket} :
            /\ [q EXCEPT !.route = << >>] = Origin(q)'
            /\ \A pkt \in HeldPackets :
                  PacketKey(pkt) = PacketKey(q) =>
                      /\ IsPrefix(pkt.route, q.route)
                      /\ pkt.route # q.route =>
                            /\ IsDispatch
                            /\ lastFired'.event_type = "switch_transmit"
                            /\ q.route = Append(pkt.route, lastFired'.switch_id)
                            /\ IsEgress(lastFired'.switch_id, lastFired'.output_port)
                            /\ LET log == port_log'[lastFired'.switch_id][lastFired'.output_port].egressed
                               IN log[Len(log)] = PacketKey(q)
      ]_vars

\* A packet that two switches have egressed is held by the fabric.
C31_Witness ==
    \E q \in HeldPackets : Len(q.route) >= 2 /\ q.timestamp > 0

\* ---------------------------------------------------------------- C32
\* The two endpoints <<switch, port>> of a link.
Endpoints(link) == {<<link[1], link[2]>>, <<link[3], link[4]>>}

LinksBetween(a, b) ==
    {k \in DOMAIN topology.switch_links :
        LET link == topology.switch_links[k]
        IN (link[1] = a /\ link[3] = b) \/ (link[1] = b /\ link[3] = a)}

Spines == 0..(topology.num_spines - 1)

Leaves == topology.num_spines..(topology.num_spines + topology.num_leaves - 1)

Devices == {topology.cxl_devices[i] : i \in DOMAIN topology.cxl_devices}

\* C32: in a two-tier fabric built from num_spines >= 1, num_leaves >= 1 and
\* per-leaf counts >= 0, the build raises nothing, every endpoint of a link
\* is a port of its switch, no two links share an endpoint, every spine is
\* linked to every leaf exactly once, every installed route names a port of
\* its switch, and every spine has one route per device, out of the port
\* linked to the device's leaf.
C32_TwoTierWellFormed ==
    /\ (calls # << >> /\ calls[1].cfg.kind = "two_tier") =>
           ~calls[1].raised /\ topology.kind = "two_tier"
    /\ topology.kind = "two_tier" =>
        LET links == topology.switch_links
        IN /\ \A k \in DOMAIN links :
                 /\ ValidPort(switches[links[k][1]], links[k][2])
                 /\ ValidPort(switches[links[k][3]], links[k][4])
                 /\ Cardinality(Endpoints(links[k])) = 2
           /\ \A k1, k2 \in DOMAIN links :
                 k1 # k2 => Endpoints(links[k1]) \cap Endpoints(links[k2]) = {}
           /\ \A s \in Spines : \A l \in Leaves : Cardinality(LinksBetween(s, l)) = 1
           /\ Len(links) = topology.num_spines * topology.num_leaves
           /\ \A s \in DOMAIN switches : \A d \in DOMAIN switches[s].routing_table :
                 ValidPort(switches[s], switches[s].routing_table[d])
           /\ \A s \in Spines :
                 /\ DOMAIN switches[s].routing_table = Devices
                 /\ \A d \in Devices :
                       \E k \in LinksBetween(s, topology.device_to_switch[d]) :
                           Endpoints(links[k]) \cap {<<s, switches[s].routing_table[d]>>} # {}

\* A two-tier fabric with two spines, devices and a leaf without hosts.
C32_Witness ==
    /\ topology.kind = "two_tier"
    /\ topology.num_spines >= 2
    /\ topology.num_devices >= 2
    /\ topology.hosts_per_leaf = 0
    /\ switches # << >>

\* ---------------------------------------------------------------- C33
\* The next hop of a packet for dst_device that leaves switch s by the
\* route installed there.
RoutedHop(s, dst_device) ==
    get_next_hop(topology, s, switches[s].routing_table[dst_device], dst_device)

\* Following next hops from switch s delivers at dst_device within fuel
\* hops, at every switch finding a route and never entering a switch of
\* visited.
RECURSIVE Reaches(_, _, _, _)
Reaches(s, dst_device, visited, fuel) ==
    /\ fuel > 0
    /\ s \notin visited
    /\ dst_device \in DOMAIN switches[s].routing_table
    /\ LET hop == RoutedHop(s, dst_device)
       IN \/ hop[1] = "DEVICE"
          \/ /\ hop[1] = "SWITCH"
             /\ Reaches(hop[2], dst_device, visited \cup {s}, fuel - 1)

\* C33: in every fabric create_topology builds, the next-hop lookup for an
\* installed route is delivery at the device exactly on the device's switch
\* and otherwise the opposite endpoint of a link of switch_links, never the
\* missing-link error; from the home switch of every host the next hops
\* reach every device without entering a switch twice.
C33_NextHopResolves ==
    topology.kind \in {"single", "two_tier"} =>
        /\ \A s \in DOMAIN switches : \A d \in DOMAIN switches[s].routing_table :
              LET hop == RoutedHop(s, d)
                  port == switches[s].routing_table[d]
              IN IF s = topology.device_to_switch[d]
                 THEN hop[1] = "DEVICE"
                 ELSE /\ hop[1] = "SWITCH"
                      /\ \E k \in DOMAIN topology.switch_links :
                            Endpoints(topology.switch_links[k]) =
                                {<<s, port>>, <<hop[2], hop[3]>>}
        /\ \A h \in DOMAIN topology.host_to_switch : \A d \in Devices :
              Reaches(topology.host_to_switch[h], d, {}, Cardinality(DOMAIN switches))

\* A two-tier fabric with hosts on two leaves and devices has been built.
C33_Witness ==
    /\ topology.kind = "two_tier"
    /\ topology.num_devices >= 1
    /\ Len(topology.host_leaves) >= 2
    /\ topology.num_hosts >= 2
    /\ switches # << >>

\* ---------------------------------------------------------------- C34
\* Largest number of completions recorded.
MaxCompletions == 3

\* Completion times of a packet created at time 0.
CompletionTimes == {180, 188, 215, 250, 410}

\* Arguments of percentile_latency, inside and outside [0, 100].
PercentileArgs == {-400, -50, -10, 0, 50, 95, 99, 100, 150}

\* engine.stats.record_packet_completion(packet, completion_time) for a
\* read of host 0 issued at time 0.
RecordCompletion(completion_time) ==
    /\ Len(stats.latencies) < MaxCompletions
    /\ LET packet == generate_memory_request(hosts[0], 0, 0, TRUE, PRIORITY_MEDIUM, 0).packet
       IN stats' = record_packet_completion(stats, packet, completion_time)
    /\ UNCHANGED <<topology, switches, hosts, engine, dropped_packets, pc, until,
                   max_events, events_processed, runs, lastFired, prev_time, port_log,
                   created, calls>>

StatsNext == \E completion_time \in CompletionTimes : RecordCompletion(completion_time)

StatsSpec == EngineInit /\ [][StatsNext]_vars

Clamp(i, lo, hi) == IF i < lo THEN lo ELSE IF i > hi THEN hi ELSE i

\* C34: for n >= 1 recorded latencies and any p, percentile_latency(p)
\* returns the element of the ascending latencies at index floor(n * p / 100)
\* clamped into [0, n - 1]: the maximum for p >= 100 and the minimum when the
\* index falls below 0.
C34_PercentileClamped ==
    stats.latencies # << >> =>
        LET sorted == SortSeq(stats.latencies, LAMBDA a, b : a < b)
            n == Len(sorted)
        IN \A p \in PercentileArgs :
              LET r == percentile_latency(stats, p)
                  index == (n * p) \div 100
              IN /\ ~r.raised
                 /\ r.value = sorted[Clamp(index, 0, n - 1) + 1]
                 /\ p >= 100 => r.value = sorted[n]
                 /\ index < 0 => r.value = sorted[1]

\* ---------------------------------------------------------------- C35
\* Packets the ports of switch s have accepted so far.
AcceptedBy(s) == SumOver([p \in PortsOf(s) |-> Len(port_log[s][p].accepted)], PortsOf(s))

\* Sum of the dropped counters of the ports of switch s.
PortDrops(s) == SumOver([p \in PortsOf(s) |-> switches[s].ports[p].packets_dropped], PortsOf(s))

\* The route_packet call of the step, if it makes one.
StepIngress ==
    IF IsDispatch THEN NextIngress ELSE [happens |-> FALSE, sid |-> None, packet |-> NoPacket]

\* C35: for every switch, total_packets_processed counts the route_packet
\* calls and equals the accepted packets plus total_packets_dropped, and
\* total_packets_dropped is the sum of the ports' dropped counters plus the
\* packets rejected for an unmapped destination; a step without a
\* route_packet call on the switch changes none of these.
C35_SwitchCountersBalance ==
    [][ \A ing \in {StepIngress} :
           \A s \in DOMAIN switches :
            LET sw == switches[s]
                sw1 == switches'[s]
                Untouched(p) ==
                    /\ sw1.ports[p].packets_dropped = sw.ports[p].packets_dropped
                    /\ port_log'[s][p].accepted = port_log[s][p].accepted
            IN IF ing.happens /\ ing.sid = s
               THEN /\ sw1.total_packets_processed = sw.total_packets_processed + 1
                    /\ sw1.total_packets_processed =
                           AcceptedBy(s)' + sw1.total_packets_dropped
                    /\ IF ing.packet.dst_device \notin DOMAIN sw.routing_table
                       THEN /\ sw1.total_packets_dropped = sw.total_packets_dropped + 1
                            /\ \A p \in PortsOf(s) : Untouched(p)
                       ELSE LET target == sw.routing_table[ing.packet.dst_device]
                            IN /\ sw1.total_packets_dropped - sw.total_packets_dropped =
                                      sw1.ports[target].packets_dropped
                                          - sw.ports[target].packets_dropped
                               /\ \A p \in PortsOf(s) \ {target} : Untouched(p)
               ELSE /\ sw1.total_packets_processed = sw.total_packets_processed
                    /\ sw1.total_packets_dropped = sw.total_packets_dropped
                    /\ \A p \in PortsOf(s) : Untouched(p)
      ]_vars

\* A switch has accepted packets, refused one on a full port and rejected
\* one without a route.
C35_Witness ==
    \E s \in DOMAIN switches :
        /\ AcceptedBy(s) >= 1
        /\ PortDrops(s) >= 1
        /\ switches[s].total_packets_dropped > PortDrops(s)

\* ---------------------------------------------------------------- C36
DroppedKeys == {dropped_packets[i] : i \in DOMAIN dropped_packets}

\* packets_received, latencies and the hosts' counters agree, and a dropped
\* packet is still awaited by its host.
CompletionsBalance ==
    /\ stats.packets_received = Len(stats.latencies)
    /\ stats.packets_received =
           SumOver([h \in DOMAIN hosts |-> hosts[h].packets_received], DOMAIN hosts)
    /\ \A h \in DOMAIN hosts :
           hosts[h].packets_sent =
               hosts[h].packets_received + Cardinality(hosts[h].outstanding_requests)
    /\ \A key \in DroppedKeys : key[2] \in hosts[key[1]].outstanding_requests

\* C36: every packet completes at most once: packets_received equals the
\* number of latencies and the sum of the hosts' received counters, every
\* host has packets_sent = packets_received + outstanding requests, a packet
\* that completes was outstanding and not dropped, and a dropped packet
\* stays in the outstanding set of its host.
C36_CompletesAtMostOnce ==
    [][ /\ CompletionsBalance
        /\ CompletionsBalance'
        /\ (IsDispatch /\ lastFired'.event_type = "device_response") =>
              LET packet == lastFired'.packet
              IN /\ PacketKey(packet) \notin DroppedKeys
                 /\ packet.packet_id \in hosts[packet.src_host].outstanding_requests
                 /\ packet.packet_id \notin hosts'[packet.src_host].outstanding_requests
                 /\ stats'.packets_received = stats.packets_received + 1
      ]_vars

\* A run has ended with one packet completed and a dropped one still
\* outstanding.
C36_Witness ==
    /\ pc = "halted"
    /\ engine.event_queue = << >>
    /\ stats.packets_received >= 1
    /\ dropped_packets # << >>
    /\ \E key \in DroppedKeys : key[2] \in hosts[key[1]].outstanding_requests

\* ---------------------------------------------------------------- C37
\* C37: no handler step raises the past-event ValueError, and every
\* switch_transmit event _schedule_port_transmission schedules has a
\* timestamp at or after the current_time at which it is scheduled.
C37_TransmitNeverPast ==
    [][ IsDispatch =>
            /\ ~engine'.raised
            /\ pc' # "aborted"
            /\ \A e \in NewTransmits :
                  /\ e.timestamp >= engine'.current_time
                  /\ e.timestamp \in {engine'.current_time + CXL_SWITCH_LATENCY, NextFreeOf(e)}
      ]_vars

\* An ingress arrived at an idle port that was still serializing its last
\* packet, and the transmission was scheduled at the port's next free time.
C37_Witness ==
    /\ lastFired.event_type = "host_send"
    /\ \E e \in PendingEvents :
          /\ e.event_type = "switch_transmit"
          /\ e.seq = engine.next_seq - 1
          /\ e.timestamp > engine.current_time
          /\ e.timestamp < engine.current_time + CXL_SWITCH_LATENCY

\* ---------------------------------------------------------------- C38
\* The step dispatches a switch_transmit event for port p of switch s.
IsTransmitDispatch(s, p) ==
    /\ IsDispatch
    /\ lastFired'.event_type = "switch_transmit"
    /\ lastFired'.switch_id = s
    /\ lastFired'.output_port = p

\* C38: every dispatched switch_transmit event finds a packet in the queue
\* of its port, so transmit_packet returns a packet; the dispatch adds one
\* to the port's packets_sent and no other step changes that counter, so
\* packets_sent counts the switch_transmit events dispatched for the port.
C38_TransmitFindsPacket ==
    [][ \A s \in DOMAIN switches : \A p \in PortsOf(s) :
            IF IsTransmitDispatch(s, p)
            THEN /\ switches[s].ports[p].queue # << >>
                 /\ IsEgress(s, p)
                 /\ switches'[s].ports[p].packets_sent = switches[s].ports[p].packets_sent + 1
                 /\ switches'[s].ports[p].packets_sent = Len(port_log'[s][p].egressed)
            ELSE /\ switches'[s].ports[p].packets_sent = switches[s].ports[p].packets_sent
                 /\ port_log'[s][p].egressed = port_log[s][p].egressed
      ]_vars

\* The third switch_transmit event of a port has been dispatched.
C38_Witness ==
    /\ lastFired.event_type = "switch_transmit"
    /\ LET port == switches[lastFired.switch_id].ports[lastFired.output_port]
       IN /\ port.packets_sent = 3
          /\ port.queue = << >>
          /\ ~port.is_transmitting

\* ---------------------------------------------------------------- C39
\* C39: current_time is the timestamp of the last event dispatched (0 if
\* none was) and only a dispatch changes it; after a run call has returned
\* stats.final_time equals current_time; a dispatch of run(until=T) never
\* sets current_time beyond T.
C39_FinalTimeIsLastDispatch ==
    [][ /\ engine'.current_time = (IF lastFired' = NoEvent THEN 0 ELSE lastFired'.timestamp)
        /\ ~IsDispatch => engine'.current_time = engine.current_time
        /\ pc' = "halted" => stats'.final_time = engine'.current_time
        /\ (IsDispatch /\ until # None) => engine'.current_time <= until
      ]_vars

\* run(until=200) has returned before time 200 with a later event pending.
C39_Witness ==
    /\ pc = "halted"
    /\ until = 200
    /\ engine.event_queue # << >>
    /\ Popped.item.timestamp > until
    /\ lastFired # NoEvent
    /\ engine.current_time < until
    /\ stats.final_time = lastFired.timestamp

====
